---- MODULE Spec2Model ----
(***************************************************************************)
(* The Quarkdown compilation pipeline: QuarkdownCompiler.compile drives    *)
(* QuarkdownParser.parse, extractMetadata, executeDocument (expansion of   *)
(* function calls and variable references against an ExecutionContext and *)
(* the StandardLibrary) and QuarkdownRenderer.render.                      *)
(*                                                                         *)
(* Trees are records with a "type" field, as ASTNode.  An optional JS      *)
(* value is a sequence of length 0 (undefined) or 1 (the value).  A        *)
(* variable value is [str |-> s] for a string and [num |-> n] for a        *)
(* number, so that String(value) and truthiness are computed, not assumed. *)
(***************************************************************************)
EXTENDS Integers, Sequences, FiniteSets, TLC

VARIABLES pc, options, parseFault, parseResult, errors, warnings, context,
          metadata, i, executedChildren, rendererOptions, raised, result

vars == <<pc, options, parseFault, parseResult, errors, warnings, context,
          metadata, i, executedChildren, rendererOptions, raised, result>>

\* Longest document (number of top-level nodes) given to compile.
MaxDocLen == 2

None == <<>>
Some(v) == <<v>>

EmptyMap == <<>>

Put(map, key, value) == (key :> value) @@ map

-----------------------------------------------------------------------------
(* Tree model *)

Text(s) == [type |-> "text", content |-> s]

Variable(n) == [type |-> "variable", name |-> n]

FunctionCall(n, a, named, b) ==
    [type |-> "function_call", name |-> n, args |-> a, namedArgs |-> named, body |-> b]

Container(t, ch) == [type |-> t, children |-> ch]

Document(ch) == [type |-> "document", children |-> ch]

StrVal(s) == [str |-> s]

NumVal(n) == [num |-> n]

\* String(value) of resolveVariable
StringOf(value) == IF "num" \in DOMAIN value THEN ToString(value.num) ELSE value.str

\* !!value of evaluateCondition
Truthy(value) == IF "num" \in DOMAIN value THEN value.num # 0 ELSE value.str # ""

\* parseFloat over the numeric literals of the model; <<>> is NaN
NumLit == [s \in {"0", "1", "2", "3", "5", "6"} |->
             CASE s = "0" -> 0 [] s = "1" -> 1 [] s = "2" -> 2
               [] s = "3" -> 3 [] s = "5" -> 5 [] s = "6" -> 6]

ParseFloat(s) == IF s \in DOMAIN NumLit THEN Some(NumLit[s]) ELSE None

\* text.startsWith('.') and text.slice(1) over the condition texts of the model
DotName == [s \in {".x", ".flag"} |-> IF s = ".x" THEN "x" ELSE "flag"]

RECURSIVE JoinText(_)
JoinText(strs) == IF strs = <<>> THEN "" ELSE Head(strs) \o JoinText(Tail(strs))

\* getTextFromNode of a defined node
RECURSIVE GetTextFromNode(_)
GetTextFromNode(node) ==
    IF node.type = "text" THEN node.content
    ELSE IF "children" \in DOMAIN node
         THEN JoinText([k \in 1..Len(node.children) |-> GetTextFromNode(node.children[k])])
         ELSE ""

GetNumberFromNode(node) == ParseFloat(GetTextFromNode(node))

GetStringArg(namedArgs, name) ==
    IF name \in DOMAIN namedArgs THEN Some(GetTextFromNode(namedArgs[name])) ELSE None

GetNumberArg(namedArgs, name) ==
    IF name \in DOMAIN namedArgs THEN ParseFloat(GetTextFromNode(namedArgs[name])) ELSE None

\* JS `x || d` for an optional number: undefined, NaN and 0 all give d
OrDefault(optNum, d) == IF optNum = None \/ optNum[1] = 0 THEN d ELSE optNum[1]

\* Math.pow for integer operands with a non-negative exponent
RECURSIVE MathPow(_, _)
MathPow(base, exponent) == IF exponent <= 0 THEN 1 ELSE base * MathPow(base, exponent - 1)

-----------------------------------------------------------------------------
(* ExecutionContext *)

\* initializeBuiltinVariables; pi and e are kept by their decimal expansion, the
\* date fields are those of one sample clock reading.  A map value is optional:
\* Map.set(name, undefined) binds the name to <<>>.
BuiltinVariables ==
    [n \in {"pi", "e", "today", "now", "year", "month", "day"} |->
        CASE n = "pi" -> Some(StrVal("3.141592653589793"))
          [] n = "e" -> Some(StrVal("2.718281828459045"))
          [] n = "today" -> Some(StrVal("11/4/2026"))
          [] n = "now" -> Some(StrVal("11/4/2026, 12:00:00 AM"))
          [] n = "year" -> Some(NumVal(2026))
          [] n = "month" -> Some(NumVal(11))
          [] n = "day" -> Some(NumVal(4))]

\* the names registerStandardFunctions registers
StdlibNames ==
    {"row", "column", "grid", "center", "add", "multiply", "pow", "truncate",
     "if", "repeat", "var", "upper", "lower", "docname", "docauthor", "doctype",
     "theme", "include", "function"}

\* StandardLibrary.functions after the constructor: each name bound to the
\* method of that name
Registry == [name \in StdlibNames |-> name]

\* `stdlib` is the library the compiler hands to the constructor
NewContext(opts) ==
    [variables |-> BuiltinVariables, metadata |-> EmptyMap, userFunctions |-> EmptyMap,
     warnings |-> <<>>, namedArgs |-> EmptyMap, scopeStack |-> <<>>, options |-> opts,
     stdlib |-> Registry]

SetVariable(ctx, name, value) == [ctx EXCEPT !.variables = Put(@, name, value)]

\* getVariable with a lookup that walks down the whole scope stack
RECURSIVE LookupFrames(_, _, _)
LookupFrames(ctx, name, depth) ==
    IF depth = 0
    THEN (IF name \in DOMAIN ctx.variables THEN ctx.variables[name] ELSE None)
    ELSE IF name \in DOMAIN ctx.scopeStack[depth] THEN ctx.scopeStack[depth][name]
    ELSE LookupFrames(ctx, name, depth - 1)

GetVariableAllFrames(ctx, name) == LookupFrames(ctx, name, Len(ctx.scopeStack))

\* getVariable: the top scope frame, then the globals; <<>> is undefined
GetVariable(ctx, name) ==
    IF Len(ctx.scopeStack) > 0 /\ name \in DOMAIN ctx.scopeStack[Len(ctx.scopeStack)]
    THEN ctx.scopeStack[Len(ctx.scopeStack)][name]
    ELSE IF name \in DOMAIN ctx.variables THEN ctx.variables[name] ELSE None

HasVariable(ctx, name) ==
    \/ Len(ctx.scopeStack) > 0 /\ name \in DOMAIN ctx.scopeStack[Len(ctx.scopeStack)]
    \/ name \in DOMAIN ctx.variables

PushScope(ctx) == [ctx EXCEPT !.scopeStack = Append(@, EmptyMap)]

PopScope(ctx) ==
    [ctx EXCEPT !.scopeStack = IF Len(@) = 0 THEN @ ELSE SubSeq(@, 1, Len(@) - 1)]

SetScopedVariable(ctx, name, value) ==
    IF Len(ctx.scopeStack) > 0
    THEN [ctx EXCEPT !.scopeStack[Len(ctx.scopeStack)] = Put(@, name, value)]
    ELSE SetVariable(ctx, name, value)

SetMetadata(ctx, key, value) == [ctx EXCEPT !.metadata = Put(@, key, value)]

\* a defineFunction that registers the function in the library instead
DefineFunctionInRegistry(ctx, name, parameters, body) ==
    [ctx EXCEPT !.stdlib = Put(@, name, "user")]

DefineFunction(ctx, name, parameters, body) ==
    [ctx EXCEPT !.userFunctions =
        Put(@, name, [name |-> name, parameters |-> parameters,
                      namedParameters |-> None, body |-> body])]

AddWarning(ctx, warning) == [ctx EXCEPT !.warnings = Append(@, warning)]

SetNamedArgs(ctx, namedArgs) == [ctx EXCEPT !.namedArgs = namedArgs]

GetNamedArgs(ctx) == ctx.namedArgs

StyleWarning(msg) == [message |-> msg, type |-> "style"]

-----------------------------------------------------------------------------
(* Outcome of executing a node or a function: the nodes to splice (null is *)
(* the empty sequence), the context as left behind, and the error thrown.  *)

Ok(out, ctx) == [out |-> out, ctx |-> ctx, err |-> None]

Throw(ctx, msg) == [out |-> <<>>, ctx |-> ctx, err |-> Some(msg)]

\* TypeError of reading `.type` of args[0] when the call has no positional argument
UndefinedNodeError == "Cannot read properties of undefined (reading 'type')"

-----------------------------------------------------------------------------
(* StandardLibrary *)

StdlibHasFunction(name) == name \in StdlibNames

row(args, body, ctx) ==
    Ok(<<[type |-> "row",
          alignment |-> GetStringArg(GetNamedArgs(ctx), "alignment"),
          gap |-> GetStringArg(GetNamedArgs(ctx), "gap"),
          children |-> body]>>, ctx)

column(args, body, ctx) ==
    Ok(<<[type |-> "column",
          crossAlignment |-> GetStringArg(GetNamedArgs(ctx), "cross"),
          gap |-> GetStringArg(GetNamedArgs(ctx), "gap"),
          children |-> body]>>, ctx)

grid(args, body, ctx) ==
    Ok(<<[type |-> "grid",
          columns |-> GetNumberArg(GetNamedArgs(ctx), "columns"),
          gap |-> GetStringArg(GetNamedArgs(ctx), "gap"),
          children |-> body]>>, ctx)

center(args, body, ctx) == Ok(<<[type |-> "center", children |-> body]>>, ctx)

add(args, body, ctx) ==
    IF Len(args) = 0 THEN Throw(ctx, UndefinedNodeError)
    ELSE LET value == OrDefault(GetNumberFromNode(args[1]), 0)
             toValue == OrDefault(GetNumberArg(GetNamedArgs(ctx), "to"), 0)
         IN Ok(<<Text(ToString(value + toValue))>>, ctx)

multiply(args, body, ctx) ==
    IF Len(args) = 0 THEN Throw(ctx, UndefinedNodeError)
    ELSE LET value == OrDefault(GetNumberFromNode(args[1]), 0)
             byValue == OrDefault(GetNumberArg(GetNamedArgs(ctx), "by"), 1)
         IN Ok(<<Text(ToString(value * byValue))>>, ctx)

pow(args, body, ctx) ==
    IF Len(args) = 0 THEN Throw(ctx, UndefinedNodeError)
    ELSE LET base == OrDefault(GetNumberFromNode(args[1]), 0)
             exponent == OrDefault(GetNumberArg(GetNamedArgs(ctx), "to"), 1)
         IN Ok(<<Text(ToString(MathPow(base, exponent)))>>, ctx)

RECURSIVE Zeros(_)
Zeros(n) == IF n <= 0 THEN "" ELSE "0" \o Zeros(n - 1)

\* number.toFixed(decimals) of an integer
ToFixed(number, decimals) ==
    ToString(number) \o (IF decimals > 0 THEN "." \o Zeros(decimals) ELSE "")

truncate(args, body, ctx) ==
    IF Len(args) = 0 THEN Throw(ctx, UndefinedNodeError)
    ELSE LET decimals == OrDefault(GetNumberFromNode(args[1]), 0)
             content == JoinText([k \in 1..Len(body) |-> GetTextFromNode(body[k])])
             number == ParseFloat(content)
         IN IF number = None THEN Ok(<<Text(content)>>, ctx)
            ELSE Ok(<<Text(ToFixed(number[1], decimals))>>, ctx)

evaluateCondition(node, ctx) ==
    LET text == GetTextFromNode(node)
    IN IF text \in DOMAIN DotName
       THEN LET value == GetVariable(ctx, DotName[text])
            IN value # None /\ Truthy(value[1])
       ELSE IF text = "true" THEN TRUE
       ELSE IF text = "false" THEN FALSE
       ELSE LET num == ParseFloat(text) IN num # None /\ num[1] # 0

if(args, body, ctx) ==
    IF Len(args) = 0 THEN Throw(ctx, UndefinedNodeError)
    ELSE IF evaluateCondition(args[1], ctx) THEN Ok(body, ctx) ELSE Ok(<<>>, ctx)

RECURSIVE Times(_, _)
Times(body, n) == IF n <= 0 THEN <<>> ELSE body \o Times(body, n - 1)

repeat(args, body, ctx) ==
    IF Len(args) = 0 THEN Throw(ctx, UndefinedNodeError)
    ELSE LET count == OrDefault(GetNumberFromNode(args[1]), 1)
         IN Ok(Times(body, count),
               IF count > 0 THEN SetVariable(ctx, "_index", Some(NumVal(count - 1))) ELSE ctx)

var(args, body, ctx) ==
    IF Len(args) = 0 THEN Throw(ctx, UndefinedNodeError)
    ELSE LET name == GetTextFromNode(args[1])
             value == IF Len(args) > 1 THEN GetTextFromNode(args[2]) ELSE ""
         IN Ok(<<>>, SetVariable(ctx, name, Some(StrVal(value))))

\* toUpperCase / toLowerCase over the texts of the model that hold letters
UpperTable == [s \in {"hello", "user"} |-> IF s = "hello" THEN "HELLO" ELSE "USER"]

LowerTable == [s \in {"World"} |-> "world"]

ToUpperCase(s) == IF s \in DOMAIN UpperTable THEN UpperTable[s] ELSE s

ToLowerCase(s) == IF s \in DOMAIN LowerTable THEN LowerTable[s] ELSE s

upper(args, body, ctx) ==
    Ok([k \in 1..Len(body) |->
          IF body[k].type = "text"
          THEN [body[k] EXCEPT !.content = ToUpperCase(@)] ELSE body[k]], ctx)

lower(args, body, ctx) ==
    Ok([k \in 1..Len(body) |->
          IF body[k].type = "text"
          THEN [body[k] EXCEPT !.content = ToLowerCase(@)] ELSE body[k]], ctx)

docname(args, body, ctx) ==
    IF Len(args) = 0 THEN Throw(ctx, UndefinedNodeError)
    ELSE Ok(<<>>, SetMetadata(ctx, "title", GetTextFromNode(args[1])))

docauthor(args, body, ctx) ==
    IF Len(args) = 0 THEN Throw(ctx, UndefinedNodeError)
    ELSE Ok(<<>>, SetMetadata(ctx, "author", GetTextFromNode(args[1])))

doctype(args, body, ctx) ==
    IF Len(args) = 0 THEN Throw(ctx, UndefinedNodeError)
    ELSE Ok(<<>>, SetMetadata(ctx, "doctype", GetTextFromNode(args[1])))

theme(args, body, ctx) ==
    IF Len(args) = 0 THEN Throw(ctx, UndefinedNodeError)
    ELSE LET layout == GetStringArg(GetNamedArgs(ctx), "layout")
             withTheme == SetMetadata(ctx, "theme", GetTextFromNode(args[1]))
         IN Ok(<<>>, IF layout # None /\ layout[1] # ""
                     THEN SetMetadata(withTheme, "layout", layout[1]) ELSE withTheme)

include(args, body, ctx) ==
    IF Len(args) = 0 THEN Throw(ctx, UndefinedNodeError)
    ELSE Ok(<<Text("[Included: " \o GetTextFromNode(args[1]) \o "]")>>, ctx)

function(args, body, ctx) ==
    IF Len(args) = 0 THEN Throw(ctx, UndefinedNodeError)
    ELSE Ok(<<>>, DefineFunction(ctx, GetTextFromNode(args[1]), <<>>, body))

\* StandardLibrary.executeFunction: the registered implementation of `name`
StdlibExecuteFunction(name, args, body, ctx) ==
    CASE name = "row" -> row(args, body, ctx)
      [] name = "column" -> column(args, body, ctx)
      [] name = "grid" -> grid(args, body, ctx)
      [] name = "center" -> center(args, body, ctx)
      [] name = "add" -> add(args, body, ctx)
      [] name = "multiply" -> multiply(args, body, ctx)
      [] name = "pow" -> pow(args, body, ctx)
      [] name = "truncate" -> truncate(args, body, ctx)
      [] name = "if" -> if(args, body, ctx)
      [] name = "repeat" -> repeat(args, body, ctx)
      [] name = "var" -> var(args, body, ctx)
      [] name = "upper" -> upper(args, body, ctx)
      [] name = "lower" -> lower(args, body, ctx)
      [] name = "docname" -> docname(args, body, ctx)
      [] name = "docauthor" -> docauthor(args, body, ctx)
      [] name = "doctype" -> doctype(args, body, ctx)
      [] name = "theme" -> theme(args, body, ctx)
      [] name = "include" -> include(args, body, ctx)
      [] name = "function" -> function(args, body, ctx)
      [] OTHER -> Throw(ctx, "Unknown function: " \o name)

-----------------------------------------------------------------------------
(* ExecutionContext: user-defined functions *)

ContextHasFunction(ctx, name) == name \in DOMAIN ctx.userFunctions \/ StdlibHasFunction(name)

\* JSON.stringify throws for a complex node that holds a cycle (its `attributes`
\* are Record<string, any>); such a node has type "cyclic" here
CircularError == "Converting circular structure to JSON"

StringifyThrows(node) == node.type = "cyclic"

\* nodeToValue; JSON.stringify of a complex node is kept by its type tag only
NodeToValue(ctx, node) ==
    IF node.type = "text" THEN Some(StrVal(node.content))
    ELSE IF node.type = "variable" THEN GetVariable(ctx, node.name)
    ELSE Some(StrVal("{\"type\":\"" \o node.type \o "\"}"))

\* the positional-parameter loop of executeUserFunction, from index k on
RECURSIVE BindPositional(_, _, _, _)
BindPositional(ctx, parameters, args, k) ==
    IF k > Len(parameters) \/ k > Len(args) \/ StringifyThrows(args[k]) THEN ctx
    ELSE BindPositional(SetScopedVariable(ctx, parameters[k], NodeToValue(ctx, args[k])),
                        parameters, args, k + 1)

\* the named-parameter loop of executeUserFunction over the names in `names`
RECURSIVE BindNamed(_, _, _)
BindNamed(ctx, func, names) ==
    IF names = {} THEN ctx
    ELSE LET name == CHOOSE n \in names : TRUE
             bound == IF func.namedParameters # None /\ name \in func.namedParameters[1]
                      THEN SetScopedVariable(ctx, name, NodeToValue(ctx, ctx.namedArgs[name]))
                      ELSE ctx
         IN BindNamed(bound, func, names \ {name})

\* whether nodeToValue throws for one of the arguments the positional loop reaches
PositionalThrows(parameters, args) ==
    \E k \in 1..Len(args) : k <= Len(parameters) /\ StringifyThrows(args[k])

\* executeUserFunction with the pop as the last statement of the try block
\* instead of a finally clause
executeUserFunctionNoFinally(ctx, func, args, body) ==
    LET pushed == PushScope(ctx)
        positional == BindPositional(pushed, func.parameters, args, 1)
        named == BindNamed(positional, func, DOMAIN positional.namedArgs)
    IN IF PositionalThrows(func.parameters, args) THEN Throw(positional, CircularError)
       ELSE Ok(func.body, PopScope(named))

\* executeUserFunction: push a scope, bind, return the stored body as it is; the
\* finally clause pops on the normal and on the throwing path
executeUserFunction(ctx, func, args, body) ==
    LET pushed == PushScope(ctx)
        positional == BindPositional(pushed, func.parameters, args, 1)
        named == BindNamed(positional, func, DOMAIN positional.namedArgs)
    IN IF PositionalThrows(func.parameters, args)
       THEN Throw(PopScope(positional), CircularError)
       ELSE Ok(func.body, PopScope(named))

\* ExecutionContext.executeFunction: user functions first, then the library
ContextExecuteFunction(ctx, name, args, body) ==
    IF name \in DOMAIN ctx.userFunctions
    THEN executeUserFunction(ctx, ctx.userFunctions[name], args, body)
    ELSE IF StdlibHasFunction(name) THEN StdlibExecuteFunction(name, args, body, ctx)
    ELSE Throw(ctx, "Unknown function: " \o name)

-----------------------------------------------------------------------------
(* QuarkdownCompiler: expansion *)

resolveVariable(node, ctx) ==
    LET value == GetVariable(ctx, node.name)
    IN IF value # None
       THEN Ok(<<Text(StringOf(value[1]))>>, ctx)
       ELSE Ok(<<Text("{{" \o node.name \o "}}")>>,
               AddWarning(ctx, StyleWarning("Undefined variable: " \o node.name)))

executeFunctionCall(node, ctx) ==
    IF StdlibHasFunction(node.name)
    THEN StdlibExecuteFunction(node.name, node.args, node.body, ctx)
    ELSE IF ContextHasFunction(ctx, node.name)
    THEN ContextExecuteFunction(ctx, node.name, node.args, node.body)
    ELSE Ok(<<>>, AddWarning(ctx, StyleWarning("Unknown function: " \o node.name)))

\* the node types whose children executeNode processes
RecursedTypes == {"paragraph", "heading", "list", "blockquote"}

RECURSIVE executeNode(_, _)
RECURSIVE ExecuteChildren(_, _, _, _)

\* the child loop of executeNode / executeDocument from index k on, `acc` holding
\* the nodes pushed so far; the first error thrown ends the loop
ExecuteChildren(children, k, acc, ctx) ==
    IF k > Len(children) THEN Ok(acc, ctx)
    ELSE LET r == executeNode(children[k], ctx)
         IN IF r.err # None THEN Throw(r.ctx, r.err[1])
            ELSE ExecuteChildren(children, k + 1, acc \o r.out, r.ctx)

executeNode(node, ctx) ==
    IF node.type = "function_call" THEN executeFunctionCall(node, ctx)
    ELSE IF node.type = "variable" THEN resolveVariable(node, ctx)
    ELSE IF node.type \in RecursedTypes
    THEN LET r == ExecuteChildren(node.children, 1, <<>>, ctx)
         IN IF r.err # None THEN r
            ELSE Ok(<<[node EXCEPT !.children = r.out]>>, r.ctx)
    ELSE Ok(<<node>>, ctx)

-----------------------------------------------------------------------------
(* QuarkdownParser.parse.  The tokenizer is the markdown-it library; a source *)
(* text is kept by the node sequence that tokenization and token conversion   *)
(* yield for it, and `fault` names the internal pass that throws, if any.     *)

ParseFaults == {"none", "preprocess", "tokenize", "convert"}

SyntaxError(msg) == [message |-> "Parse error: " \o msg, type |-> "syntax"]

\* the body of parse's try block: the three passes in order
ParsePasses(source, fault) ==
    IF fault # "none"
    THEN [threw |-> TRUE, msg |-> fault \o " failed", ast |-> Document(<<>>)]
    ELSE [threw |-> FALSE, msg |-> "", ast |-> Document(source)]

\* parse with its catch clause missing: the exception of a failed pass leaves parse
parseWithoutCatch(source, fault) ==
    LET t == ParsePasses(source, fault)
    IN [ast |-> t.ast, errors |-> <<>>, threw |-> t.threw, msg |-> t.msg]

\* parse: the try block and its catch clause; `threw` tells whether the call ended
\* by an exception (with message `msg`) instead of a result
parse(source, fault) ==
    LET t == ParsePasses(source, fault)
    IN IF t.threw
       THEN [ast |-> Document(<<>>), errors |-> <<SyntaxError(t.msg)>>,
             threw |-> FALSE, msg |-> ""]
       ELSE [ast |-> t.ast, errors |-> <<>>, threw |-> FALSE, msg |-> ""]

-----------------------------------------------------------------------------
(* QuarkdownCompiler: metadata.  createdAt (the clock) is left out. *)

getDefaultMetadata ==
    [title |-> None, author |-> None, language |-> None, doctype |-> "plain", theme |-> None]

extractStringArgument(funcCall, index) ==
    IF Len(funcCall.args) >= index /\ funcCall.args[index].type = "text"
    THEN Some(funcCall.args[index].content) ELSE None

\* an iteration that copies the doctype argument without checking it
ExtractFromNodeUnchecked(md, node) ==
    IF node.type # "function_call" THEN md
    ELSE LET arg == extractStringArgument(node, 1)
         IN CASE node.name = "docname" -> [md EXCEPT !.title = arg]
              [] node.name = "docauthor" -> [md EXCEPT !.author = arg]
              [] node.name = "doclang" -> [md EXCEPT !.language = arg]
              [] node.name = "doctype" -> IF arg # None THEN [md EXCEPT !.doctype = arg[1]] ELSE md
              [] node.name = "theme" -> [md EXCEPT !.theme = arg]
              [] OTHER -> md

\* one iteration of extractMetadata's loop
ExtractFromNode(md, node) ==
    IF node.type # "function_call" THEN md
    ELSE LET arg == extractStringArgument(node, 1)
         IN CASE node.name = "docname" -> [md EXCEPT !.title = arg]
              [] node.name = "docauthor" -> [md EXCEPT !.author = arg]
              [] node.name = "doclang" -> [md EXCEPT !.language = arg]
              [] node.name = "doctype" ->
                   IF arg # None /\ arg[1] \in {"slides", "paged", "plain"}
                   THEN [md EXCEPT !.doctype = arg[1]] ELSE md
              [] node.name = "theme" -> [md EXCEPT !.theme = arg]
              [] OTHER -> md

RECURSIVE ExtractFrom(_, _, _)
ExtractFrom(md, children, k) ==
    IF k > Len(children) THEN md
    ELSE ExtractFrom(ExtractFromNode(md, children[k]), children, k + 1)

extractMetadata(ast) == ExtractFrom(getDefaultMetadata, ast.children, 1)

-----------------------------------------------------------------------------
(* QuarkdownRenderer *)

\* escapeHtml builds a DOM element: without a DOM `document` it throws
NoDocumentError == "document is not defined"

\* textContent -> innerHTML over the texts of the model that hold & < >
EscapeTable == [s \in {"a<b"} |-> "a&lt;b"]

escapeHtml(text) == IF text \in DOMAIN EscapeTable THEN EscapeTable[text] ELSE text

\* generateId over the heading contents of the model
SlugTable == [s \in {"{{x}}", "a&lt;b"} |-> IF s = "{{x}}" THEN "x" ELSE "altb"]

generateId(text) == IF text \in DOMAIN SlugTable THEN SlugTable[text] ELSE text

\* rendered.filter(html => html).join('\n')
RECURSIVE JoinLines(_)
JoinLines(strs) ==
    IF strs = <<>> THEN ""
    ELSE IF Head(strs) = "" THEN JoinLines(Tail(strs))
    ELSE LET rest == JoinLines(Tail(strs))
         IN IF rest = "" THEN Head(strs) ELSE Head(strs) \o "\n" \o rest

\* truthiness of an optional string property: set and not ''
IsSet(opt) == opt # None /\ opt[1] # ""

RECURSIVE renderNode(_)

renderChildren(nodes) == JoinLines([k \in 1..Len(nodes) |-> renderNode(nodes[k])])

renderNode(node) ==
    CASE node.type = "text" -> escapeHtml(node.content)
      [] node.type = "paragraph" -> "<p>" \o renderChildren(node.children) \o "</p>"
      [] node.type = "heading" ->
           LET content == renderChildren(node.children)
           IN "<h" \o ToString(node.level) \o " id=\"" \o generateId(content) \o "\">"
                \o content \o "</h" \o ToString(node.level) \o ">"
      [] node.type = "list" -> "<ul>\n" \o renderChildren(node.children) \o "\n</ul>"
      [] node.type = "list_item" -> "<li>" \o renderChildren(node.children) \o "</li>"
      [] node.type = "blockquote" ->
           "<blockquote>\n\n" \o renderChildren(node.children) \o "\n</blockquote>"
      [] node.type = "emphasis" -> "<strong>" \o renderChildren(node.children) \o "</strong>"
      [] node.type = "row" ->
           "<div class=\"qmd-row"
             \o (IF node.alignment # None /\ node.alignment[1] # ""
                 THEN " alignment-" \o node.alignment[1] ELSE "") \o "\""
             \o (IF node.gap # None /\ node.gap[1] # ""
                 THEN " style=\"--gap: " \o node.gap[1] \o "\"" ELSE "")
             \o ">" \o renderChildren(node.children) \o "</div>"
      [] node.type = "column" ->
           "<div class=\"qmd-column"
             \o (IF node.crossAlignment # None /\ node.crossAlignment[1] # ""
                 THEN " cross-" \o node.crossAlignment[1] ELSE "") \o "\""
             \o (IF node.gap # None /\ node.gap[1] # ""
                 THEN " style=\"--gap: " \o node.gap[1] \o "\"" ELSE "")
             \o ">" \o renderChildren(node.children) \o "</div>"
      [] node.type = "grid" ->
           LET columnsStyle == IF node.columns # None /\ node.columns[1] # 0
                               THEN "--columns: " \o ToString(node.columns[1]) ELSE ""
               gapStyle == IF node.gap # None /\ node.gap[1] # ""
                           THEN "--gap: " \o node.gap[1] ELSE ""
               styles == IF columnsStyle # "" /\ gapStyle # ""
                         THEN columnsStyle \o "; " \o gapStyle ELSE columnsStyle \o gapStyle
           IN "<div class=\"qmd-grid\""
                \o (IF styles # "" THEN " style=\"" \o styles \o "\"" ELSE "")
                \o ">" \o renderChildren(node.children) \o "</div>"
      [] node.type = "center" ->
           "<div class=\"qmd-center\">" \o renderChildren(node.children) \o "</div>"
      [] node.type = "code" ->
           LET content == escapeHtml(node.content)
               languageClass == IF IsSet(node.language)
                                THEN " class=\"language-" \o node.language[1] \o "\"" ELSE ""
           IN IF node.inline THEN "<code>" \o content \o "</code>"
              ELSE "<pre><code" \o languageClass \o ">" \o content \o "</code></pre>"
      [] node.type = "math" ->
           "<span class=\"" \o (IF node.inline THEN "math math-inline" ELSE "math math-display")
             \o "\">" \o escapeHtml(node.content) \o "</span>"
      [] node.type = "image" ->
           LET alt == IF IsSet(node.alt) THEN " alt=\"" \o escapeHtml(node.alt[1]) \o "\"" ELSE ""
               title == IF IsSet(node.title)
                        THEN " title=\"" \o escapeHtml(node.title[1]) \o "\"" ELSE ""
               width == IF IsSet(node.width) THEN "width: " \o node.width[1] ELSE ""
               height == IF IsSet(node.height) THEN "height: " \o node.height[1] ELSE ""
               style == IF width # "" \/ height # ""
                        THEN " style=\"" \o width
                               \o (IF width # "" /\ height # "" THEN "; " ELSE "")
                               \o height \o "\""
                        ELSE ""
           IN "<img src=\"" \o escapeHtml(node.src) \o "\"" \o alt \o title \o style \o ">"
      [] node.type = "link" ->
           "<a href=\"" \o escapeHtml(node.url) \o "\""
             \o (IF IsSet(node.title) THEN " title=\"" \o escapeHtml(node.title[1]) \o "\"" ELSE "")
             \o ">" \o renderChildren(node.children) \o "</a>"
      \* renderSlide; the indentation of the template's lines is left out
      [] node.type = "slide" ->
           "<section class=\"slide\""
             \o (IF IsSet(node.transition)
                 THEN " data-transition=\"" \o node.transition[1] \o "\"" ELSE "")
             \o (IF IsSet(node.background)
                 THEN " data-background=\"" \o node.background[1] \o "\"" ELSE "")
             \o ">\n"
             \o (IF IsSet(node.title)
                 THEN "<h1 class=\"slide-title\">" \o escapeHtml(node.title[1]) \o "</h1>"
                 ELSE "")
             \o "\n<div class=\"slide-content\">\n" \o renderChildren(node.children)
             \o "\n</div>\n</section>"
      [] OTHER -> ""

getDocumentWrapper(content, dt) ==
    CASE dt = "slides" -> "<div class=\"reveal\"><div class=\"slides\">" \o content \o "</div></div>"
      [] dt = "paged" -> "<article class=\"paged-document\">" \o content \o "</article>"
      [] OTHER -> "<main class=\"document-content\">" \o content \o "</main>"

\* wrapWithDocument for a tree without metadata of its own (parse sets none); the
\* fixed style sheets and scripts are left out of the page shell
wrapWithDocument(content, opts) ==
    LET themeName == IF opts.theme # None /\ opts.theme[1] # "" THEN opts.theme[1] ELSE "default"
        dt == IF opts.doctype # "" THEN opts.doctype ELSE "plain"
    IN "<!DOCTYPE html>\n<html lang=\"en\">\n<head>\n<title>"
         \o escapeHtml("Quarkdown Document") \o "</title>\n"
         \o (IF opts.doctype = "slides" THEN "<script src=\"reveal.min.js\"></script>\n" ELSE "")
         \o "</head>\n<body class=\"quarkdown-document doctype-" \o dt
         \o " theme-" \o themeName \o "\">\n"
         \o getDocumentWrapper(content, dt) \o "\n</body>\n</html>"

\* render: the html, or the error thrown when the host has no DOM
render(ast, opts, hasDom) ==
    IF hasDom
    THEN [html |-> wrapWithDocument(renderChildren(ast.children), opts), err |-> None]
    ELSE [html |-> "", err |-> Some(NoDocumentError)]

-----------------------------------------------------------------------------
(* Inputs *)

NoNamed == EmptyMap

NodePool ==
    { Text("a<b"),
      Variable("x"),
      FunctionCall("var", <<Text("x"), Text("5")>>, NoNamed, <<>>),
      FunctionCall("var", <<Text("x"), Text("7")>>, NoNamed, <<>>),
      FunctionCall("var", <<>>, NoNamed, <<>>),
      FunctionCall("nonexistent", <<Text("arg")>>, NoNamed, <<>>),
      FunctionCall("function", <<Text("add")>>, NoNamed, <<Text("user")>>),
      FunctionCall("function", <<Text("greet")>>, NoNamed, <<Text("hi"), Variable("x")>>),
      FunctionCall("function", <<Text("greet")>>, NoNamed,
                   <<Text("name:"), Text("Hello, "),
                     [type |-> "emphasis", strong |-> TRUE, children |-> <<Variable("name")>>],
                     Text("!")>>),
      FunctionCall("greet", <<Text("World")>>, NoNamed, <<>>),
      FunctionCall("add", <<Text("5")>>, [to |-> Text("3")], <<>>),
      FunctionCall("multiply", <<Text("6")>>, [by |-> Text("3")], <<>>),
      FunctionCall("pow", <<Text("2")>>, [to |-> Text("3")], <<>>),
      FunctionCall("row", <<>>, [alignment |-> Text("center"), gap |-> Text("1cm")],
                   <<Text("c1")>>),
      FunctionCall("column", <<>>, [cross |-> Text("start"), gap |-> Text("1cm")],
                   <<Text("c1")>>),
      FunctionCall("grid", <<>>, [columns |-> Text("2"), gap |-> Text("1em")],
                   <<Text("c1")>>),
      FunctionCall("if", <<Text("true")>>, NoNamed, <<Variable("x")>>),
      FunctionCall("repeat", <<Text("2")>>, NoNamed, <<Text("r")>>),
      Container("paragraph", <<Variable("x"), Text("!")>>),
      [type |-> "emphasis", strong |-> TRUE, children |-> <<Variable("x")>>],
      FunctionCall("var", <<Text("flag"), Text("true")>>, NoNamed, <<>>),
      FunctionCall("var", <<Text("flag"), Text("false")>>, NoNamed, <<>>),
      FunctionCall("if", <<Text(".flag")>>, NoNamed, <<Text("shown")>>),
      FunctionCall("repeat", <<Text("0")>>, NoNamed, <<Text("r")>>),
      FunctionCall("repeat", <<Text("many")>>, NoNamed, <<Text("r")>>),
      FunctionCall("repeat", <<Text("2")>>, NoNamed, <<Variable("_index")>>),
      FunctionCall("docname", <<Text("Test Document")>>, NoNamed, <<>>),
      FunctionCall("docname", <<Text("Other")>>, NoNamed, <<>>),
      FunctionCall("docauthor", <<Text("Test Author")>>, NoNamed, <<>>),
      FunctionCall("doclang", <<Text("en")>>, NoNamed, <<>>),
      FunctionCall("doctype", <<Text("slides")>>, NoNamed, <<>>),
      FunctionCall("doctype", <<Text("book")>>, NoNamed, <<>>),
      FunctionCall("theme", <<Text("dark")>>, NoNamed, <<>>),
      Container("paragraph", <<FunctionCall("docname", <<Text("Nested")>>, NoNamed, <<>>),
                               FunctionCall("doctype", <<Text("paged")>>, NoNamed, <<>>)>>) }

\* the documents compile is given: up to MaxDocLen top-level nodes
Docs == UNION {[1..n -> NodePool] : n \in 0..MaxDocLen}

\* CompileOptions: strict absent, false or true
OptionsSet == [strict : {None, Some(FALSE), Some(TRUE)}]

-----------------------------------------------------------------------------
(* QuarkdownCompiler.compile *)

RuntimeError(msg) == [message |-> "Compilation failed: " \o msg, type |-> "runtime"]

Pending ==
    [status |-> "pending", html |-> "", metadata |-> getDefaultMetadata,
     errors |-> <<>>, warnings |-> <<>>]

Resolved(html, md, errs, warns) ==
    [status |-> "resolved", html |-> html, metadata |-> md, errors |-> errs, warnings |-> warns]

\* a catch clause that rethrows: the promise of compile rejects
CompileCatchRethrows(errs, warns, msg) ==
    [status |-> "rejected", html |-> "", metadata |-> getDefaultMetadata,
     errors |-> Append(errs, RuntimeError(msg)), warnings |-> warns]

\* the catch clause of compile: `errs` and `warns` are compile's local lists
CompileCatch(errs, warns, msg) ==
    Resolved("", getDefaultMetadata, Append(errs, RuntimeError(msg)), warns)

\* a strict check that forgets the option: any parse error ends compile
StrictAbortAlways(pr, opts) == Len(pr.errors) > 0

\* `parseResult.errors.length > 0` together with `options.strict`
StrictAbort(pr, opts) == Len(pr.errors) > 0 /\ opts.strict = Some(TRUE)

Init ==
    /\ pc = "idle"
    /\ options = [strict |-> None]
    /\ parseFault = "none"
    /\ parseResult = [ast |-> Document(<<>>), errors |-> <<>>, threw |-> FALSE, msg |-> ""]
    /\ errors = <<>>
    /\ warnings = <<>>
    /\ context = NewContext([strict |-> None])
    /\ metadata = getDefaultMetadata
    /\ i = 0
    /\ executedChildren = <<>>
    /\ rendererOptions = EmptyMap
    /\ raised = "none"
    /\ result = Pending

\* render options in which a doctype or theme of the caller's options wins over
\* the document's
RenderOptionsCallerWins(opts, md) ==
    [strict |-> opts.strict,
     doctype |-> IF opts.doctype # None THEN opts.doctype[1] ELSE md.doctype,
     theme |-> IF opts.theme # None THEN opts.theme ELSE md.theme]

\* the options object compile hands to render:
\* `{...options, doctype: metadata.doctype, theme: metadata.theme}`
RenderOptionsOf(opts, md) == [strict |-> opts.strict, doctype |-> md.doctype, theme |-> md.theme]

\* compile up to its first await: parse, the strict check, the new context,
\* extractMetadata and the call of executeDocument
Compile ==
    /\ pc = "idle"
    /\ \E source \in Docs, opts \in OptionsSet, fault \in ParseFaults :
         LET pr == parse(source, fault)
         IN /\ options' = opts
            /\ parseFault' = fault
            /\ parseResult' = pr
            /\ IF pr.threw
               THEN /\ raised' = "parse"
                    /\ errors' = Append(<<>>, RuntimeError(pr.msg))
                    /\ result' = CompileCatch(<<>>, <<>>, pr.msg)
                    /\ pc' = "done"
                    /\ UNCHANGED <<context, metadata, i, executedChildren>>
               ELSE IF StrictAbort(pr, opts)
               THEN /\ errors' = pr.errors
                    /\ result' = Resolved("", getDefaultMetadata, pr.errors, <<>>)
                    /\ pc' = "done"
                    /\ UNCHANGED <<context, metadata, i, executedChildren, raised>>
               ELSE /\ errors' = pr.errors
                    /\ context' = NewContext(opts)
                    /\ metadata' = extractMetadata(pr.ast)
                    /\ i' = 1
                    /\ executedChildren' = <<>>
                    /\ pc' = "execute"
                    /\ UNCHANGED <<raised, result>>
    /\ UNCHANGED <<warnings, rendererOptions>>

\* an iteration that puts the body a user function returns back in place of the
\* call, to be executed in turn, instead of pushing it to the output
ExecuteDocumentStepReexpanding ==
    /\ pc = "execute"
    /\ i <= Len(parseResult.ast.children)
    /\ LET node == parseResult.ast.children[i]
           r == executeNode(node, context)
           isUserCall == /\ node.type = "function_call"
                         /\ ~StdlibHasFunction(node.name)
                         /\ node.name \in DOMAIN context.userFunctions
       IN /\ context' = r.ctx
          /\ IF isUserCall
             THEN /\ parseResult' =
                        [parseResult EXCEPT !.ast.children =
                            SubSeq(@, 1, i - 1) \o r.out \o SubSeq(@, i + 1, Len(@))]
                  /\ UNCHANGED <<i, executedChildren, raised, errors, result, pc>>
             ELSE /\ executedChildren' = executedChildren \o r.out
                  /\ i' = i + 1
                  /\ UNCHANGED <<parseResult, raised, errors, result, pc>>
    /\ UNCHANGED <<options, parseFault, warnings, metadata, rendererOptions>>

\* one iteration of executeDocument's loop; an error thrown reaches compile's catch
ExecuteDocumentStep ==
    /\ pc = "execute"
    /\ i <= Len(parseResult.ast.children)
    /\ LET r == executeNode(parseResult.ast.children[i], context)
       IN /\ context' = r.ctx
          /\ IF r.err # None
             THEN /\ raised' = "expand"
                  /\ errors' = Append(errors, RuntimeError(r.err[1]))
                  /\ result' = CompileCatch(errors, warnings, r.err[1])
                  /\ pc' = "done"
                  /\ UNCHANGED <<i, executedChildren>>
             ELSE /\ executedChildren' = executedChildren \o r.out
                  /\ i' = i + 1
                  /\ UNCHANGED <<raised, errors, result, pc>>
    /\ UNCHANGED <<options, parseFault, parseResult, warnings, metadata, rendererOptions>>

\* the end of executeDocument, render, and compile's return
Render ==
    /\ pc = "execute"
    /\ i > Len(parseResult.ast.children)
    /\ \E hasDom \in BOOLEAN :
       LET expandedAst == [parseResult.ast EXCEPT !.children = executedChildren]
           renderOptions == RenderOptionsOf(options, metadata)
           r == render(expandedAst, renderOptions, hasDom)
       IN /\ rendererOptions' = renderOptions
          /\ IF r.err # None
             THEN /\ raised' = "render"
                  /\ errors' = Append(errors, RuntimeError(r.err[1]))
                  /\ result' = CompileCatch(errors, warnings, r.err[1])
                  /\ UNCHANGED warnings
             ELSE /\ warnings' = warnings \o context.warnings
                  /\ result' = Resolved(r.html, metadata, errors, warnings \o context.warnings)
                  /\ UNCHANGED <<raised, errors>>
    /\ pc' = "done"
    /\ UNCHANGED <<options, parseFault, parseResult, context, metadata, i, executedChildren>>

Next ==
    \/ Compile
    \/ ExecuteDocumentStep
    \/ Render

Spec == Init /\ [][Next]_vars

-----------------------------------------------------------------------------
(* Properties *)

parsedAst == parseResult.ast

RuntimeCount(errs) == Cardinality({k \in 1..Len(errs) : errs[k].type = "runtime"})

IsPrefix(a, b) == Len(a) <= Len(b) /\ SubSeq(b, 1, Len(a)) = a

\* C1: compile never throws.  Whenever a step of compile raises a failure, the
\* call still resolves, with html '', the default metadata (doctype plain) and
\* the errors collected so far followed by exactly one runtime error.
C1_CompileNeverThrows ==
    pc = "done" =>
        /\ result.status = "resolved"
        /\ raised # "none" =>
              /\ result.html = ""
              /\ result.metadata = getDefaultMetadata
              /\ result.metadata.doctype = "plain"
              /\ Len(result.errors) = Len(parseResult.errors) + 1
              /\ IsPrefix(parseResult.errors, result.errors)
              /\ result.errors[Len(result.errors)].type = "runtime"
              /\ RuntimeCount(result.errors) = 1

\* C1 witness: the second top-level node threw during expansion, after the first
\* had been expanded, and compile has returned.
C1_Witness == pc = "done" /\ raised = "expand" /\ i = 2 /\ result.html = ""

\* C2: parse never throws; when an internal pass fails it returns exactly one
\* syntax error and a document tree without children.
C2_ParseNeverThrows ==
    pc # "idle" =>
        /\ ~parseResult.threw
        /\ parseFault # "none" =>
              /\ Len(parseResult.errors) = 1
              /\ parseResult.errors[1].type = "syntax"
              /\ parseResult.ast.type = "document"
              /\ parseResult.ast.children = <<>>

\* C2 witness: tokenization failed inside parse and parse has returned.
C2_Witness == pc # "idle" /\ parseFault = "tokenize" /\ Len(parseResult.errors) = 1

\* C3: with a parse error and options.strict true, compile returns html '' with
\* exactly the parse errors and no warnings, and neither executeDocument nor
\* render is called; with strict false or absent compile goes on through
\* executeDocument and render, and the returned errors begin with the parse errors.
C3_StrictAbortsOnParseError ==
    (pc = "done" /\ Len(parseResult.errors) > 0) =>
        IF options.strict = Some(TRUE)
        THEN /\ result.html = ""
             /\ result.errors = parseResult.errors
             /\ result.warnings = <<>>
             /\ i = 0
             /\ rendererOptions = EmptyMap
        ELSE /\ i >= 1
             /\ rendererOptions # EmptyMap
             /\ IsPrefix(parseResult.errors, result.errors)

\* C3 witness: a strict compile of a source whose parse failed has returned.
C3_Witness ==
    pc = "done" /\ Len(parseResult.errors) > 0 /\ options.strict = Some(TRUE)
      /\ result.status = "resolved"

\* whether the loop of executeDocument is about to execute the top-level node i
AtNode == pc = "execute" /\ i <= Len(parsedAst.children)

CurrentNode == parsedAst.children[i]

\* whether the tree returned by executeDocument is complete
ExpansionReturned == pc \in {"execute", "done"} /\ i > Len(parsedAst.children)

RECURSIVE HasDynamic(_)
HasDynamic(node) ==
    \/ node.type \in {"function_call", "variable"}
    \/ /\ "children" \in DOMAIN node
       /\ \E k \in 1..Len(node.children) : HasDynamic(node.children[k])

\* C4: the tree returned by expansion holds no function_call and no variable node
\* at any depth.
C4_NoDynamicNodes ==
    ExpansionReturned =>
        \A k \in 1..Len(executedChildren) : ~HasDynamic(executedChildren[k])

RECURSIVE ContainsCall(_)
ContainsCall(node) ==
    \/ node.type = "function_call"
    \/ /\ "children" \in DOMAIN node
       /\ \E k \in 1..Len(node.children) : ContainsCall(node.children[k])

RECURSIVE CountRefs(_, _)
CountRefs(node, n) ==
    IF node.type = "variable" THEN (IF node.name = n THEN 1 ELSE 0)
    ELSE IF "children" \in DOMAIN node
    THEN LET RECURSIVE Sum(_)
             Sum(k) == IF k = 0 THEN 0 ELSE CountRefs(node.children[k], n) + Sum(k - 1)
         IN Sum(Len(node.children))
    ELSE 0

\* `node` with every reference to n, at any depth, replaced by the text t
RECURSIVE SubstRef(_, _, _)
SubstRef(node, n, t) ==
    IF node.type = "variable" /\ node.name = n THEN Text(t)
    ELSE IF "children" \in DOMAIN node
    THEN [node EXCEPT !.children = [k \in 1..Len(node.children) |-> SubstRef(node.children[k], n, t)]]
    ELSE node

IsVarCall(node, n) ==
    /\ node.type = "function_call" /\ node.name = "var"
    /\ Len(node.args) >= 1 /\ node.args[1] = Text(n)

\* the value given by the last `var` call for n among children[1..k], <<>> if none
RECURSIVE LastVarValue(_, _, _)
LastVarValue(children, k, n) ==
    IF k = 0 THEN None
    ELSE IF IsVarCall(children[k], n)
    THEN Some(IF Len(children[k].args) > 1 THEN children[k].args[2].content ELSE "")
    ELSE LastVarValue(children, k - 1, n)

\* a top-level node that is no call, holds no call and refers to n
RefersOnlyTo(node, n) == ~ContainsCall(node) /\ CountRefs(node, n) > 0

\* C5: once a `var` call has set x to V, every later reference to x (until another
\* `var` call for x) is replaced by a text node with content V: the node that
\* holds the reference is spliced with each reference replaced.
C5_LaterReferencesSeeLastVar ==
    [][ (AtNode /\ RefersOnlyTo(CurrentNode, "x")
           /\ LastVarValue(parsedAst.children, i - 1, "x") # None)
        => executedChildren' = Append(executedChildren,
              SubstRef(CurrentNode, "x", LastVarValue(parsedAst.children, i - 1, "x")[1]))
      ]_vars

\* C6: a reference to a name bound neither in the top scope frame nor globally is
\* replaced by the text {{name}}, records exactly one style warning per
\* reference and no error, and the expansion goes on with the next node.
C6_UndefinedReferencePlaceholder ==
    [][ (AtNode /\ RefersOnlyTo(CurrentNode, "x") /\ GetVariable(context, "x") = None)
        => /\ executedChildren' = Append(executedChildren, SubstRef(CurrentNode, "x", "{{x}}"))
           /\ context'.warnings = context.warnings \o
                 [k \in 1..CountRefs(CurrentNode, "x") |-> StyleWarning("Undefined variable: x")]
           /\ errors' = errors
           /\ pc' = "execute" /\ i' = i + 1
      ]_vars

IsUnknownCall(node, ctx) ==
    /\ node.type = "function_call"
    /\ node.name \notin StdlibNames
    /\ node.name \notin DOMAIN ctx.userFunctions

Range(seq) == {seq[k] : k \in 1..Len(seq)}

\* C7: a call to a name that is neither built-in nor user-defined contributes no
\* node, raises no error, records the style warning 'Unknown function: X', and
\* that warning is in the warnings of the result compile returns.
C7_UnknownFunctionWarning ==
    /\ (AtNode /\ IsUnknownCall(CurrentNode, context)) =>
          LET r == executeNode(CurrentNode, context)
          IN /\ r.out = <<>>
             /\ r.err = None
             /\ r.ctx.warnings = Append(context.warnings,
                                        StyleWarning("Unknown function: " \o CurrentNode.name))
    /\ pc = "done" =>
          \A k \in 1..Len(parsedAst.children) :
             (k < i /\ IsUnknownCall(parsedAst.children[k], context)) =>
                StyleWarning("Unknown function: " \o parsedAst.children[k].name)
                   \in Range(result.warnings)

\* C8: a call of a name that the document defined as a user function runs the
\* user function, also when a built-in has the same name.
C8_UserFunctionShadowsBuiltin ==
    [][ (AtNode /\ CurrentNode.type = "function_call"
           /\ CurrentNode.name \in DOMAIN context.userFunctions)
        => executedChildren' =
              executedChildren \o context.userFunctions[CurrentNode.name].body
      ]_vars

NamedText(node, n) ==
    IF n \in DOMAIN node.namedArgs THEN Some(node.namedArgs[n].content) ELSE None

NamedNumber(node, n) ==
    IF n \in DOMAIN node.namedArgs THEN Some(NumLit[node.namedArgs[n].content]) ELSE None

\* the layout node the named arguments of the call itself describe
LayoutOfCall(node) ==
    CASE node.name = "row" ->
           [type |-> "row", alignment |-> NamedText(node, "alignment"),
            gap |-> NamedText(node, "gap"), children |-> node.body]
      [] node.name = "column" ->
           [type |-> "column", crossAlignment |-> NamedText(node, "cross"),
            gap |-> NamedText(node, "gap"), children |-> node.body]
      [] node.name = "grid" ->
           [type |-> "grid", columns |-> NamedNumber(node, "columns"),
            gap |-> NamedText(node, "gap"), children |-> node.body]

\* C9: row, column and grid return a layout node whose attributes are the named
\* arguments of the call and whose children are the body of the call.
C9_LayoutReadsNamedArguments ==
    [][ (AtNode /\ CurrentNode.type = "function_call"
           /\ CurrentNode.name \in {"row", "column", "grid"})
        => executedChildren' = Append(executedChildren, LayoutOfCall(CurrentNode))
      ]_vars

\* the arithmetic result for numeric operands a (first positional) and b (named)
MathOfCall(node) ==
    LET a == NumLit[node.args[1].content]
    IN CASE node.name = "add" -> a + NumLit[node.namedArgs["to"].content]
         [] node.name = "multiply" -> a * NumLit[node.namedArgs["by"].content]
         [] node.name = "pow" -> MathPow(a, NumLit[node.namedArgs["to"].content])

\* C10: add, multiply and pow return a text node with the decimal string of a+b,
\* a*b and a^b for the call's first positional argument a and named argument b.
C10_MathUsesNamedOperand ==
    [][ (AtNode /\ CurrentNode.type = "function_call"
           /\ CurrentNode.name \in {"add", "multiply", "pow"}
           /\ Len(CurrentNode.args) >= 1)
        => executedChildren' = Append(executedChildren, Text(ToString(MathOfCall(CurrentNode))))
      ]_vars

IsCallOf(node, name) == node.type = "function_call" /\ node.name = name

\* C11: `if` with condition .flag returns its body when flag was set to the
\* string "true", and returns nothing when flag is unset or was set to the
\* string "false"; no error is raised in any of these cases.
C11_IfOnFlagVariable ==
    [][ (AtNode /\ IsCallOf(CurrentNode, "if") /\ CurrentNode.args = <<Text(".flag")>>)
        => LET flag == GetVariable(context, "flag")
           IN /\ flag = Some(StrVal("true")) =>
                    executedChildren' = executedChildren \o CurrentNode.body
              /\ flag \in {None, Some(StrVal("false"))} =>
                    executedChildren' = executedChildren
              /\ flag \in {None, Some(StrVal("true")), Some(StrVal("false"))} =>
                    errors' = errors /\ pc' = "execute"
      ]_vars

\* the body concatenated n times
RECURSIVE Copies(_, _)
Copies(body, n) == IF n = 0 THEN <<>> ELSE body \o Copies(body, n - 1)

\* C12: repeat with a numeric count n returns the body concatenated exactly n
\* times (a count of 0 gives nothing), and with a non-numeric count returns the
\* body exactly once.
C12_RepeatCount ==
    [][ (AtNode /\ IsCallOf(CurrentNode, "repeat") /\ Len(CurrentNode.args) >= 1
           /\ CurrentNode.args[1].type = "text")
        => LET count == CurrentNode.args[1].content
           IN executedChildren' = executedChildren \o
                 (IF count \in DOMAIN NumLit THEN Copies(CurrentNode.body, NumLit[count])
                  ELSE CurrentNode.body)
      ]_vars

\* the body of one repetition with each top-level reference to _index resolved to k
BodyAtIndex(body, k) ==
    [j \in 1..Len(body) |->
        IF body[j] = Variable("_index") THEN Text(ToString(k)) ELSE body[j]]

RECURSIVE IndexedCopies(_, _, _)
IndexedCopies(body, k, n) ==
    IF k >= n THEN <<>> ELSE BodyAtIndex(body, k) \o IndexedCopies(body, k + 1, n)

\* C13: in the i-th repetition (0-based) of a repeat body a reference to _index
\* resolves to i, so the n copies of the body show 0, 1, ..., n-1 in order.
C13_RepeatIndex ==
    [][ (AtNode /\ IsCallOf(CurrentNode, "repeat") /\ Len(CurrentNode.args) >= 1
           /\ CurrentNode.args[1].type = "text"
           /\ CurrentNode.args[1].content \in DOMAIN NumLit
           /\ NumLit[CurrentNode.args[1].content] > 0)
        => executedChildren' = executedChildren \o
              IndexedCopies(CurrentNode.body, 0, NumLit[CurrentNode.args[1].content])
      ]_vars

\* compile has returned a result built from a rendered document
Succeeded == pc = "done" /\ raised = "none" /\ i >= 1

\* the text argument of the last top-level call of `name` among children[1..k];
\* <<>> when there is no such call
RECURSIVE LastTextArg(_, _, _)
LastTextArg(children, k, name) ==
    IF k = 0 THEN None
    ELSE IF IsCallOf(children[k], name)
    THEN (IF Len(children[k].args) >= 1 /\ children[k].args[1].type = "text"
          THEN Some(children[k].args[1].content) ELSE None)
    ELSE LastTextArg(children, k - 1, name)

\* the argument of the last top-level doctype call that names a document type
RECURSIVE LastDoctype(_, _)
LastDoctype(children, k) ==
    IF k = 0 THEN "plain"
    ELSE IF /\ IsCallOf(children[k], "doctype")
            /\ Len(children[k].args) >= 1 /\ children[k].args[1].type = "text"
            /\ children[k].args[1].content \in {"slides", "paged", "plain"}
    THEN children[k].args[1].content
    ELSE LastDoctype(children, k - 1)

ParamLine == [s \in {"name:"} |-> "name"]

\* whether the stored body of a user function opens with a parameter-list line
DeclaresParameter(body) ==
    Len(body) >= 1 /\ body[1].type = "text" /\ body[1].content \in DOMAIN ParamLine

\* C15: once `function` has defined a user function with a declared parameter, a
\* call of it with a positional argument yields the function's body (without the
\* parameter-list line) in which each reference to the parameter is replaced by
\* the argument's value.
C15_UserFunctionParameter ==
    [][ (AtNode /\ CurrentNode.type = "function_call"
           /\ CurrentNode.name \notin StdlibNames
           /\ CurrentNode.name \in DOMAIN context.userFunctions
           /\ DeclaresParameter(context.userFunctions[CurrentNode.name].body)
           /\ Len(CurrentNode.args) >= 1 /\ CurrentNode.args[1].type = "text")
        => LET body == context.userFunctions[CurrentNode.name].body
               parameter == ParamLine[body[1].content]
           IN executedChildren' = executedChildren \o
                 [j \in 1..(Len(body) - 1) |->
                     SubstRef(body[j + 1], parameter, CurrentNode.args[1].content)]
      ]_vars

\* C17: when compile fails with a runtime error after expansion has recorded
\* warnings in the execution context, the returned result's warnings hold them.
C17_WarningsKeptOnFailure ==
    (pc = "done" /\ raised \in {"expand", "render"} /\ Len(context.warnings) > 0)
        => /\ Len(result.warnings) >= Len(context.warnings)
           /\ \A k \in 1..Len(context.warnings) : context.warnings[k] \in Range(result.warnings)

-----------------------------------------------------------------------------
(* The ExecutionContext on its own: a client calls its public scope and     *)
(* variable operations, and the library's `var`, in any order.  `context`   *)
(* is the object and pc names the operation called last.                    *)

\* Deepest scope stack the client builds.
MaxScopeDepth == 2

VarNames == {"x", "y"}

VarValues == {"5", "7"}

InitContext ==
    /\ pc = "new"
    /\ context = NewContext([strict |-> None])
    /\ options = [strict |-> None]
    /\ parseFault = "none"
    /\ parseResult = [ast |-> Document(<<>>), errors |-> <<>>, threw |-> FALSE, msg |-> ""]
    /\ errors = <<>>
    /\ warnings = <<>>
    /\ metadata = getDefaultMetadata
    /\ i = 0
    /\ executedChildren = <<>>
    /\ rendererOptions = EmptyMap
    /\ raised = "none"
    /\ result = Pending

ContextOnly ==
    UNCHANGED <<options, parseFault, parseResult, errors, warnings, metadata, i,
                executedChildren, rendererOptions, raised, result>>

CallPushScope ==
    /\ Len(context.scopeStack) < MaxScopeDepth
    /\ context' = PushScope(context)
    /\ pc' = "pushScope"
    /\ ContextOnly

CallPopScope ==
    /\ context' = PopScope(context)
    /\ pc' = "popScope"
    /\ ContextOnly

CallSetVariable ==
    /\ \E name \in VarNames, value \in VarValues :
          context' = SetVariable(context, name, Some(StrVal(value)))
    /\ pc' = "setVariable"
    /\ ContextOnly

CallSetScopedVariable ==
    /\ \E name \in VarNames, value \in VarValues :
          context' = SetScopedVariable(context, name, Some(StrVal(value)))
    /\ pc' = "setScopedVariable"
    /\ ContextOnly

\* stdlib.executeFunction('var', [name, value], [], context)
CallVar ==
    /\ \E name \in VarNames, value \in VarValues :
          context' = StdlibExecuteFunction("var", <<Text(name), Text(value)>>, <<>>, context).ctx
    /\ pc' = "var"
    /\ ContextOnly

\* the parameter lists a client declares for its function f
ParameterLists == {<<>>, <<"x">>, <<"x", "y">>}

\* the argument lists of its calls; the cyclic node cannot be serialised
ArgumentLists ==
    {<<>>, <<Text("5")>>, <<[type |-> "cyclic"]>>, <<Text("5"), [type |-> "cyclic"]>>}

CallDefineFunction ==
    /\ \E parameters \in ParameterLists :
          context' = DefineFunction(context, "f", parameters, <<Text("body")>>)
    /\ pc' = "defineFunction"
    /\ ContextOnly

\* context.executeFunction('f', args, []) for the user function f; `raised`
\* tells whether the call threw
CallExecuteFunction ==
    /\ "f" \in DOMAIN context.userFunctions
    /\ \E args \in ArgumentLists :
          LET r == ContextExecuteFunction(context, "f", args, <<>>)
          IN /\ context' = r.ctx
             /\ raised' = IF r.err # None THEN "executeFunction" ELSE "none"
    /\ pc' = "executeFunction"
    /\ UNCHANGED <<options, parseFault, parseResult, errors, warnings, metadata, i,
                   executedChildren, rendererOptions, result>>

NextContext ==
    \/ CallPushScope
    \/ CallPopScope
    \/ CallSetVariable
    \/ CallSetScopedVariable
    \/ CallVar
    \/ CallDefineFunction
    \/ CallExecuteFunction

SpecContext == InitContext /\ [][NextContext]_vars

\* the step is the call var {name} {value}
IsVarStep(name, value) ==
    /\ pc' = "var"
    /\ context' = StdlibExecuteFunction("var", <<Text(name), Text(value)>>, <<>>, context).ctx

\* C19: a `var` call made while a scope frame is on the stack binds the name in
\* the top frame and leaves the global variables unchanged, so that popping the
\* frame gives back the lookup there was before; with an empty stack it binds
\* the name globally.
C19_VarStoresInCurrentScope ==
    [][ \A name \in VarNames, value \in VarValues :
          IsVarStep(name, value) =>
             IF Len(context.scopeStack) > 0
             THEN /\ context'.variables = context.variables
                  /\ Len(context'.scopeStack) = Len(context.scopeStack)
                  /\ name \in DOMAIN context'.scopeStack[Len(context.scopeStack)]
                  /\ context'.scopeStack[Len(context.scopeStack)][name] = Some(StrVal(value))
                  /\ GetVariable(PopScope(context'), name) = GetVariable(PopScope(context), name)
             ELSE /\ name \in DOMAIN context'.variables
                  /\ context'.variables[name] = Some(StrVal(value))
      ]_vars

TopFrameBinds(ctx, name) ==
    Len(ctx.scopeStack) > 0 /\ name \in DOMAIN ctx.scopeStack[Len(ctx.scopeStack)]

\* C20: whatever pushScope, popScope, setVariable and setScopedVariable calls
\* came before, getVariable gives the top frame's binding when the top frame
\* binds the name and the global binding otherwise (undefined when there is
\* none), whatever the frames below the top hold, and hasVariable is true
\* exactly when one of the two bindings exists.
C20_LookupTopFrameThenGlobal ==
    \A name \in VarNames :
       /\ TopFrameBinds(context, name) =>
             GetVariable(context, name) = context.scopeStack[Len(context.scopeStack)][name]
       /\ (~TopFrameBinds(context, name) /\ name \in DOMAIN context.variables) =>
             GetVariable(context, name) = context.variables[name]
       /\ (~TopFrameBinds(context, name) /\ name \notin DOMAIN context.variables) =>
             GetVariable(context, name) = None
       /\ HasVariable(context, name) <=>
             (TopFrameBinds(context, name) \/ name \in DOMAIN context.variables)

\* C20 witness: two frames are on the stack, the lower one binds x, the top one
\* and the globals do not, and the lookup of x finds nothing.
C20_Witness ==
    /\ Len(context.scopeStack) = 2
    /\ "x" \in DOMAIN context.scopeStack[1]
    /\ "x" \notin DOMAIN context.scopeStack[2]
    /\ "x" \notin DOMAIN context.variables
    /\ GetVariable(context, "x") = None
    /\ ~HasVariable(context, "x")

-----------------------------------------------------------------------------
(* The Renderer on its own: render is called with a document of one node of *)
(* any kind it renders, holding user-supplied strings.  executedChildren is *)
(* the document's children and result.html the string render returns.       *)

UserStrings == {"a<b", "1cm"}

OptStrings == {None} \cup {Some(str) : str \in UserStrings}

RenderPool ==
    {Text(str) : str \in UserStrings}
    \cup [type : {"code"}, content : UserStrings, language : OptStrings, inline : BOOLEAN]
    \cup [type : {"math"}, content : UserStrings, inline : BOOLEAN]
    \cup [type : {"image"}, src : UserStrings, alt : OptStrings, title : OptStrings,
          width : OptStrings, height : OptStrings]
    \cup [type : {"link"}, url : UserStrings, title : OptStrings, children : {<<Text("t")>>}]
    \cup [type : {"row"}, alignment : OptStrings, gap : OptStrings, children : {<<Text("c1")>>}]
    \cup [type : {"column"}, crossAlignment : OptStrings, gap : OptStrings,
          children : {<<Text("c1")>>}]
    \cup [type : {"grid"}, columns : {None, Some(2)}, gap : OptStrings,
          children : {<<Text("c1")>>}]
    \cup [type : {"slide"}, title : OptStrings, transition : OptStrings,
          background : OptStrings, children : {<<Text("c1")>>}]

PlainOptions == [strict |-> None, doctype |-> "plain", theme |-> None]

InitRender ==
    /\ pc = "render"
    /\ executedChildren \in {<<node>> : node \in RenderPool}
    /\ context = NewContext([strict |-> None])
    /\ options = [strict |-> None]
    /\ parseFault = "none"
    /\ parseResult = [ast |-> Document(<<>>), errors |-> <<>>, threw |-> FALSE, msg |-> ""]
    /\ errors = <<>>
    /\ warnings = <<>>
    /\ metadata = getDefaultMetadata
    /\ i = 0
    /\ rendererOptions = EmptyMap
    /\ raised = "none"
    /\ result = Pending

\* renderer.render(document, options) in a host with or without a DOM
RenderCall ==
    /\ pc = "render"
    /\ \E hasDom \in BOOLEAN :
          LET r == render(Document(executedChildren), PlainOptions, hasDom)
          IN /\ rendererOptions' = PlainOptions
             /\ raised' = IF r.err # None THEN "render" ELSE "none"
             /\ result' = [result EXCEPT !.html = r.html]
    /\ pc' = "rendered"
    /\ UNCHANGED <<options, parseFault, parseResult, errors, warnings, context, metadata, i,
                   executedChildren>>

NextRender == RenderCall

SpecRender == InitRender /\ [][NextRender]_vars

\* an attribute with an escaped value, when the property is set
EscapedAttr(prefix, opt) ==
    IF IsSet(opt) THEN prefix \o escapeHtml(opt[1]) \o "\"" ELSE ""

\* a style declaration with an escaped value, when the property is set
EscapedDecl(prefix, opt) == IF IsSet(opt) THEN prefix \o escapeHtml(opt[1]) ELSE ""

JoinDecls(a, b) == IF a # "" /\ b # "" THEN a \o "; " \o b ELSE a \o b

StyleAttr(decls) == IF decls # "" THEN " style=\"" \o decls \o "\"" ELSE ""

\* the html of a node of the pool with every user-supplied string escaped
EscapedRendering(node) ==
    CASE node.type = "text" -> escapeHtml(node.content)
      [] node.type = "code" ->
           IF node.inline THEN "<code>" \o escapeHtml(node.content) \o "</code>"
           ELSE "<pre><code" \o EscapedAttr(" class=\"language-", node.language) \o ">"
                  \o escapeHtml(node.content) \o "</code></pre>"
      [] node.type = "math" ->
           "<span class=\"" \o (IF node.inline THEN "math math-inline" ELSE "math math-display")
             \o "\">" \o escapeHtml(node.content) \o "</span>"
      [] node.type = "image" ->
           "<img src=\"" \o escapeHtml(node.src) \o "\""
             \o EscapedAttr(" alt=\"", node.alt) \o EscapedAttr(" title=\"", node.title)
             \o StyleAttr(JoinDecls(EscapedDecl("width: ", node.width),
                                    EscapedDecl("height: ", node.height)))
             \o ">"
      [] node.type = "link" ->
           "<a href=\"" \o escapeHtml(node.url) \o "\"" \o EscapedAttr(" title=\"", node.title)
             \o ">" \o renderChildren(node.children) \o "</a>"
      [] node.type = "row" ->
           "<div class=\"qmd-row" \o EscapedDecl(" alignment-", node.alignment) \o "\""
             \o StyleAttr(EscapedDecl("--gap: ", node.gap))
             \o ">" \o renderChildren(node.children) \o "</div>"
      [] node.type = "column" ->
           "<div class=\"qmd-column" \o EscapedDecl(" cross-", node.crossAlignment) \o "\""
             \o StyleAttr(EscapedDecl("--gap: ", node.gap))
             \o ">" \o renderChildren(node.children) \o "</div>"
      [] node.type = "grid" ->
           "<div class=\"qmd-grid\""
             \o StyleAttr(JoinDecls(IF node.columns # None
                                    THEN "--columns: " \o ToString(node.columns[1]) ELSE "",
                                    EscapedDecl("--gap: ", node.gap)))
             \o ">" \o renderChildren(node.children) \o "</div>"
      [] node.type = "slide" ->
           "<section class=\"slide\"" \o EscapedAttr(" data-transition=\"", node.transition)
             \o EscapedAttr(" data-background=\"", node.background) \o ">\n"
             \o (IF IsSet(node.title)
                 THEN "<h1 class=\"slide-title\">" \o escapeHtml(node.title[1]) \o "</h1>"
                 ELSE "")
             \o "\n<div class=\"slide-content\">\n" \o renderChildren(node.children)
             \o "\n</div>\n</section>"

\* C18: every user-supplied string the Renderer emits into a text or attribute
\* position (text, code and its language, math, image src/alt/title/width/
\* height, link url/title, layout gap/alignment, slide title/transition/
\* background) is escaped: the html render returns is the page shell around the
\* node's markup with each of those strings escaped.
C18_UserStringsEscaped ==
    (pc = "rendered" /\ raised = "none")
        => result.html = wrapWithDocument(EscapedRendering(executedChildren[1]), rendererOptions)

-----------------------------------------------------------------------------
(* Two compile calls on one QuarkdownCompiler, interleaving at their awaits. *)
(* compile's locals and its ExecutionContext exist once per call: here each  *)
(* of those variables is a function of the call.  The parser, the library    *)
(* and the renderer belong to the compiler; of their fields only the         *)
(* renderer's `options` is written during a compile, and rendererOptions is  *)
(* that one field, shared by the calls.                                      *)

Calls == {1, 2}

\* Longest document given to a concurrent compile call.
MaxConcDocLen == 1

ConcPool ==
    { Variable("x"),
      FunctionCall("var", <<Text("x"), Text("5")>>, NoNamed, <<>>),
      FunctionCall("doctype", <<Text("slides")>>, NoNamed, <<>>),
      FunctionCall("theme", <<Text("dark")>>, NoNamed, <<>>),
      FunctionCall("var", <<>>, NoNamed, <<>>) }

ConcDocs == UNION {[1..n -> ConcPool] : n \in 0..MaxConcDocLen}

DefaultOptions == [strict |-> None]

InitConcurrent ==
    /\ pc = [c \in Calls |-> "idle"]
    /\ options = [c \in Calls |-> DefaultOptions]
    /\ parseFault = [c \in Calls |-> "none"]
    /\ parseResult = [c \in Calls |->
                        [ast |-> Document(<<>>), errors |-> <<>>, threw |-> FALSE, msg |-> ""]]
    /\ errors = [c \in Calls |-> <<>>]
    /\ warnings = [c \in Calls |-> <<>>]
    /\ context = [c \in Calls |-> NewContext(DefaultOptions)]
    /\ metadata = [c \in Calls |-> getDefaultMetadata]
    /\ i = [c \in Calls |-> 0]
    /\ executedChildren = [c \in Calls |-> <<>>]
    /\ rendererOptions = EmptyMap
    /\ raised = [c \in Calls |-> "none"]
    /\ result = [c \in Calls |-> Pending]

\* compile of call c up to its first await
ConcCompile(c) ==
    /\ pc[c] = "idle"
    /\ \E source \in ConcDocs :
         LET pr == parse(source, "none")
         IN /\ parseResult' = [parseResult EXCEPT ![c] = pr]
            /\ errors' = [errors EXCEPT ![c] = pr.errors]
            /\ context' = [context EXCEPT ![c] = NewContext(options[c])]
            /\ metadata' = [metadata EXCEPT ![c] = extractMetadata(pr.ast)]
            /\ i' = [i EXCEPT ![c] = 1]
            /\ executedChildren' = [executedChildren EXCEPT ![c] = <<>>]
            /\ pc' = [pc EXCEPT ![c] = "execute"]
    /\ UNCHANGED <<options, parseFault, warnings, rendererOptions, raised, result>>

\* one iteration of executeDocument's loop in call c
ConcExecuteDocumentStep(c) ==
    /\ pc[c] = "execute"
    /\ i[c] <= Len(parseResult[c].ast.children)
    /\ LET r == executeNode(parseResult[c].ast.children[i[c]], context[c])
       IN /\ context' = [context EXCEPT ![c] = r.ctx]
          /\ IF r.err # None
             THEN /\ raised' = [raised EXCEPT ![c] = "expand"]
                  /\ errors' = [errors EXCEPT ![c] = Append(@, RuntimeError(r.err[1]))]
                  /\ result' = [result EXCEPT ![c] = CompileCatch(errors[c], warnings[c], r.err[1])]
                  /\ pc' = [pc EXCEPT ![c] = "done"]
                  /\ UNCHANGED <<i, executedChildren>>
             ELSE /\ executedChildren' = [executedChildren EXCEPT ![c] = @ \o r.out]
                  /\ i' = [i EXCEPT ![c] = @ + 1]
                  /\ UNCHANGED <<raised, errors, result, pc>>
    /\ UNCHANGED <<options, parseFault, parseResult, warnings, metadata, rendererOptions>>

\* render of call c up to `await this.renderChildren(...)`: this.options is set
ConcRenderBegin(c) ==
    /\ pc[c] = "execute"
    /\ i[c] > Len(parseResult[c].ast.children)
    /\ rendererOptions' = RenderOptionsOf(options[c], metadata[c])
    /\ pc' = [pc EXCEPT ![c] = "rendering"]
    /\ UNCHANGED <<options, parseFault, parseResult, errors, warnings, context, metadata, i,
                   executedChildren, raised, result>>

\* render of call c after the await: wrapWithDocument reads this.options, and
\* compile returns
ConcRenderEnd(c) ==
    /\ pc[c] = "rendering"
    /\ \E hasDom \in BOOLEAN :
         IF hasDom
         THEN /\ warnings' = [warnings EXCEPT ![c] = @ \o context[c].warnings]
              /\ result' = [result EXCEPT ![c] =
                    Resolved(wrapWithDocument(renderChildren(executedChildren[c]), rendererOptions),
                             metadata[c], errors[c], warnings[c] \o context[c].warnings)]
              /\ UNCHANGED <<raised, errors>>
         ELSE /\ raised' = [raised EXCEPT ![c] = "render"]
              /\ errors' = [errors EXCEPT ![c] = Append(@, RuntimeError(NoDocumentError))]
              /\ result' = [result EXCEPT ![c] =
                    CompileCatch(errors[c], warnings[c], NoDocumentError)]
              /\ UNCHANGED warnings
    /\ pc' = [pc EXCEPT ![c] = "done"]
    /\ UNCHANGED <<options, parseFault, parseResult, context, metadata, i, executedChildren,
                   rendererOptions>>

NextConcurrent ==
    \E c \in Calls :
       \/ ConcCompile(c)
       \/ ConcExecuteDocumentStep(c)
       \/ ConcRenderBegin(c)
       \/ ConcRenderEnd(c)

SpecConcurrent == InitConcurrent /\ [][NextConcurrent]_vars

\* what compile returns for a parse result when no other call is running
CompileAlone(pr, opts, hasDom) ==
    IF StrictAbort(pr, opts) THEN Resolved("", getDefaultMetadata, pr.errors, <<>>)
    ELSE LET md == extractMetadata(pr.ast)
             expanded == ExecuteChildren(pr.ast.children, 1, <<>>, NewContext(opts))
         IN IF expanded.err # None THEN CompileCatch(pr.errors, <<>>, expanded.err[1])
            ELSE LET rendered == render([pr.ast EXCEPT !.children = expanded.out],
                                        RenderOptionsOf(opts, md), hasDom)
                 IN IF rendered.err # None
                    THEN CompileCatch(pr.errors, <<>>, rendered.err[1])
                    ELSE Resolved(rendered.html, md, pr.errors, expanded.ctx.warnings)

\* C16: two compile calls on one compiler that interleave at their awaits do not
\* affect each other: the html, metadata and warnings each call returns are
\* those the call returns when it runs alone.
C16_ConcurrentCompilesIsolated ==
    \A c \in Calls :
       pc[c] = "done" =>
          LET alone == CompileAlone(parseResult[c], options[c], raised[c] # "render")
          IN /\ result[c].html = alone.html
             /\ result[c].metadata = alone.metadata
             /\ result[c].warnings = alone.warnings

\* in the single-call specification compile returns what CompileAlone gives
AloneAgrees ==
    pc = "done" => result = CompileAlone(parseResult, options, raised # "render")

\* C21: a user-function invocation pushes one scope frame and pops it on every
\* exit path, also when binding an argument throws: the scope stack after the
\* invocation is the stack before it, frame by frame, and the global variables
\* are unchanged, so no parameter binding of the call is visible afterwards.
C21_UserFunctionScopeBalanced ==
    [][ pc' = "executeFunction"
        => /\ Len(context'.scopeStack) = Len(context.scopeStack)
           /\ context'.scopeStack = context.scopeStack
           /\ context'.variables = context.variables
           /\ \A name \in VarNames : GetVariable(context', name) = GetVariable(context, name)
      ]_vars

\* C21 witness: an invocation of f with a declared parameter x has thrown while
\* binding its second argument, with one frame on the stack around the call and
\* x not bound anywhere afterwards.
C21_Witness ==
    /\ pc = "executeFunction"
    /\ raised = "executeFunction"
    /\ context.userFunctions["f"].parameters = <<"x", "y">>
    /\ Len(context.scopeStack) = 1
    /\ GetVariable(context, "x") = None

-----------------------------------------------------------------------------
(* The StandardLibrary on its own: a client hands executeFunction a call of *)
(* `if`, add, multiply or pow and a context whose named arguments it has    *)
(* set.  The document of parseResult holds the call, executedChildren the   *)
(* nodes returned and `raised` tells whether the call threw.                *)

ArgTexts == {"", "yes", "true", "false", "0", "2", "3"}

LibraryCalls ==
    {FunctionCall(name, args, NoNamed, <<Text("body")>>) :
        name \in {"if", "add", "multiply", "pow"},
        args \in {<<>>} \cup {<<Text(t)>> : t \in ArgTexts}}

NamedArgSets ==
    {NoNamed} \cup {[to |-> Text(t)] : t \in {"0", "2", "oops"}}
              \cup {[by |-> Text(t)] : t \in {"0", "2", "oops"}}

InitLibrary ==
    /\ pc = "call"
    /\ parseResult \in {[ast |-> Document(<<call>>), errors |-> <<>>, threw |-> FALSE, msg |-> ""] :
                           call \in LibraryCalls}
    /\ context \in {SetNamedArgs(NewContext([strict |-> None]), named) : named \in NamedArgSets}
    /\ options = [strict |-> None]
    /\ parseFault = "none"
    /\ errors = <<>>
    /\ warnings = <<>>
    /\ metadata = getDefaultMetadata
    /\ i = 0
    /\ executedChildren = <<>>
    /\ rendererOptions = EmptyMap
    /\ raised = "none"
    /\ result = Pending

\* stdlib.executeFunction(name, args, body, context)
LibraryCall ==
    /\ pc = "call"
    /\ LET call == parseResult.ast.children[1]
           r == StdlibExecuteFunction(call.name, call.args, call.body, context)
       IN /\ context' = r.ctx
          /\ executedChildren' = r.out
          /\ raised' = IF r.err # None THEN "executeFunction" ELSE "none"
          /\ errors' = IF r.err # None THEN <<RuntimeError(r.err[1])>> ELSE <<>>
    /\ pc' = "called"
    /\ UNCHANGED <<options, parseFault, parseResult, warnings, metadata, i, rendererOptions,
                   result>>

NextLibrary == LibraryCall

SpecLibrary == InitLibrary /\ [][NextLibrary]_vars

\* the call the client made
TheCall == parseResult.ast.children[1]

IsNumeric(t) == t \in DOMAIN NumLit

\* C22: a condition text that does not start with `.`, is not true or false and
\* is not a number is truthy whenever it is non-empty (the opaque-string rule
\* that comes last in the precedence); a numeric text is truthy exactly when
\* it is nonzero.
C22_ConditionPrecedence ==
    (pc = "called" /\ TheCall.name = "if" /\ Len(TheCall.args) = 1
       /\ TheCall.args[1].content \notin {"true", "false"})
        => LET t == TheCall.args[1].content
               truthy == IF IsNumeric(t) THEN NumLit[t] # 0 ELSE t # ""
           IN /\ raised = "none"
              /\ executedChildren = IF truthy THEN TheCall.body ELSE <<>>

\* the number a math function is to use for an operand text: 0 or `neutral`
\* when the operand is missing or not a number
OperandOr(opt, neutral) ==
    IF opt # None /\ IsNumeric(opt[1]) THEN NumLit[opt[1]] ELSE neutral

FirstPositional(call) == IF Len(call.args) >= 1 THEN Some(call.args[1].content) ELSE None

NamedOperand(ctx, name) ==
    IF name \in DOMAIN ctx.namedArgs THEN Some(ctx.namedArgs[name].content) ELSE None

\* C23: add, multiply and pow never raise an error, whatever the argument list
\* (an empty positional list included), and return one text node; a missing or
\* non-numeric first positional argument counts as 0, a missing or non-numeric
\* named argument as 0 (add) or 1 (multiply, pow).
C23_MathNeverRaises ==
    (pc = "called" /\ TheCall.name \in {"add", "multiply", "pow"})
        => /\ raised = "none"
           /\ Len(executedChildren) = 1
           /\ executedChildren[1].type = "text"
           /\ LET a == OperandOr(FirstPositional(TheCall), 0)
                  named == NamedOperand(context, IF TheCall.name = "multiply" THEN "by" ELSE "to")
              IN (named = None \/ ~IsNumeric(named[1])) =>
                    executedChildren[1].content =
                       ToString(IF TheCall.name = "add" THEN a + 0 ELSE a)

\* C24: a numeric named argument equal to 0 is used as 0: for every numeric a,
\* multiply of a by 0 returns 0 and pow of a to 0 returns 1.
C24_ZeroNamedArgument ==
    (pc = "called" /\ Len(TheCall.args) = 1 /\ IsNumeric(TheCall.args[1].content))
        => /\ (TheCall.name = "multiply" /\ NamedOperand(context, "by") = Some("0"))
                 => executedChildren = <<Text("0")>>
           /\ (TheCall.name = "pow" /\ NamedOperand(context, "to") = Some("0"))
                 => executedChildren = <<Text("1")>>

-----------------------------------------------------------------------------
(* Expansion of documents that define user functions calling themselves or *)
(* each other, from the call of executeDocument on.  Every await of the    *)
(* loop resumes (the host runs each pending continuation), which is the    *)
(* fairness of SpecExpand.                                                 *)

\* Longest document of recursive definitions and calls.
MaxExpandDocLen == 3

Call0(name) == FunctionCall(name, <<>>, NoNamed, <<>>)

ExpandPool ==
    { FunctionCall("function", <<Text("loop")>>, NoNamed, <<Call0("loop")>>),
      FunctionCall("function", <<Text("ping")>>, NoNamed, <<Call0("pong")>>),
      FunctionCall("function", <<Text("pong")>>, NoNamed, <<Call0("ping")>>),
      Call0("loop"),
      Call0("ping"),
      Container("paragraph", <<Call0("loop"), Call0("pong")>>),
      FunctionCall("function", <<Text("upper")>>, NoNamed, <<Text("mine")>>),
      FunctionCall("upper", <<>>, NoNamed, <<Text("hello")>>) }

ExpandDocs == UNION {[1..n -> ExpandPool] : n \in 0..MaxExpandDocLen}

InitExpand ==
    /\ pc = "execute"
    /\ options = DefaultOptions
    /\ parseFault = "none"
    /\ parseResult \in {parse(source, "none") : source \in ExpandDocs}
    /\ errors = <<>>
    /\ warnings = <<>>
    /\ context = NewContext(DefaultOptions)
    /\ metadata = getDefaultMetadata
    /\ i = 1
    /\ executedChildren = <<>>
    /\ rendererOptions = EmptyMap
    /\ raised = "none"
    /\ result = Pending

NextExpand ==
    \/ ExecuteDocumentStep
    \/ Render

SpecExpand == InitExpand /\ [][NextExpand]_vars /\ WF_vars(NextExpand)

-----------------------------------------------------------------------------
(* QuarkdownExporter.exportWorkspace: the batch loop under withProgress,   *)
(* one action per stretch between awaits, and the user's Cancel button as   *)
(* an action of the environment.  Here parseResult holds qmdFiles, i the    *)
(* loop index, context the cancellation token, executedChildren the files   *)
(* whose export was called, result the results array.                       *)

\* Most files findFiles returns.
MaxFiles == 2

WorkspaceFiles == {"a.qmd", "b.qmd", "c.qmd"}

\* findFiles: distinct files, in the order the loop visits them
FileLists ==
    {fl \in UNION {[1..n -> WorkspaceFiles] : n \in 0..MaxFiles} :
        \A j, k \in DOMAIN fl : j # k => fl[j] # fl[k]}

\* the ExportResult of export(document, ...): export catches everything it
\* raises, so every call returns a result
ExportResult(file, success) ==
    [success |-> success, outputPath |-> IF success THEN Some(file) ELSE None]

InitExport ==
    /\ pc = "idle"
    /\ parseResult \in FileLists
    /\ context = [isCancellationRequested |-> FALSE]
    /\ i = 0
    /\ executedChildren = <<>>
    /\ result = <<>>
    /\ options = DefaultOptions
    /\ parseFault = "none"
    /\ errors = <<>>
    /\ warnings = <<>>
    /\ metadata = getDefaultMetadata
    /\ rendererOptions = EmptyMap
    /\ raised = "none"

\* exportWorkspace up to the loop: no files returns the empty results at once
exportWorkspace ==
    /\ pc = "idle"
    /\ IF Len(parseResult) = 0
       THEN pc' = "done" /\ UNCHANGED i
       ELSE pc' = "check" /\ i' = 1
    /\ UNCHANGED <<options, parseFault, parseResult, errors, warnings, context, metadata,
                   executedChildren, rendererOptions, raised, result>>

\* loop head: `i < qmdFiles.length`, then `if (token.isCancellationRequested) break`,
\* then the call of openTextDocument, which is awaited
LoopHead ==
    /\ pc = "check"
    /\ IF i > Len(parseResult) \/ context.isCancellationRequested
       THEN pc' = "done"
       ELSE pc' = "open"
    /\ UNCHANGED <<options, parseFault, parseResult, errors, warnings, context, metadata, i,
                   executedChildren, rendererOptions, raised, result>>

\* openTextDocument settles: a rejection leaves exportWorkspace rejected; on
\* success progress.report runs and export(document, ...) is called
OpenTextDocument ==
    /\ pc = "open"
    /\ \E opened \in BOOLEAN :
         IF opened
         THEN /\ executedChildren' = Append(executedChildren, parseResult[i])
              /\ pc' = "export"
              /\ UNCHANGED raised
         ELSE /\ raised' = "openTextDocument"
              /\ pc' = "done"
              /\ UNCHANGED executedChildren
    /\ UNCHANGED <<options, parseFault, parseResult, errors, warnings, context, metadata, i,
                   rendererOptions, result>>

\* export(document, ...) settles: results.push(result); i++
ExportSettles ==
    /\ pc = "export"
    /\ \E success \in BOOLEAN :
         result' = Append(result, ExportResult(parseResult[i], success))
    /\ i' = i + 1
    /\ pc' = "check"
    /\ UNCHANGED <<options, parseFault, parseResult, errors, warnings, context, metadata,
                   executedChildren, rendererOptions, raised>>

\* the user presses Cancel on the progress notification while it is shown
RequestCancellation ==
    /\ pc \in {"check", "open", "export"}
    /\ ~context.isCancellationRequested
    /\ context' = [isCancellationRequested |-> TRUE]
    /\ UNCHANGED <<pc, options, parseFault, parseResult, errors, warnings, metadata, i,
                   executedChildren, rendererOptions, raised, result>>

NextExport ==
    \/ exportWorkspace
    \/ LoopHead
    \/ OpenTextDocument
    \/ ExportSettles
    \/ RequestCancellation

SpecExport == InitExport /\ [][NextExport]_vars

\* the results are those of the files whose export was called, in file order
ResultsMatchStarted ==
    /\ Len(result) = Len(executedChildren)
    /\ Len(executedChildren) <= Len(parseResult)
    /\ \A k \in DOMAIN executedChildren : executedChildren[k] = parseResult[k]
    /\ \A k \in DOMAIN result :
          result[k].success => result[k].outputPath = Some(parseResult[k])

\* C26: once cancellation has been requested no further document's export is
\* started; the export in progress is completed and recorded, and the results
\* exportWorkspace returns hold exactly the documents whose export was started,
\* in file order.
C26_NoExportAfterCancellation ==
    [][ /\ context.isCancellationRequested => executedChildren' = executedChildren
        /\ (pc = "export" /\ pc' # "export") => Len(result') = Len(executedChildren')
        /\ (pc' = "done" /\ raised' = "none") => ResultsMatchStarted'
      ]_vars

-----------------------------------------------------------------------------
(* QuarkdownCompiler.getDiagnostics over the result of a compile with      *)
(* strict: false.  Issues of the model carry no position, so the range is  *)
(* the one `issue.line || 0` and `issue.column || 0` give.                  *)

\* `// Error : Warning`
SeverityError == 1

SeverityWarning == 2

Diagnostic(issue) ==
    [range |-> [start |-> [line |-> 0, character |-> 0],
                end |-> [line |-> 0, character |-> 10]],
     message |-> issue.message,
     severity |-> IF issue.type = "syntax" \/ issue.type = "semantic"
                  THEN SeverityError ELSE SeverityWarning,
     source |-> "quarkdown"]

getDiagnostics(res) ==
    LET issues == res.errors \o res.warnings
    IN [k \in 1..Len(issues) |-> Diagnostic(issues[k])]

\* C27: getDiagnostics returns one diagnostic per issue of the compile result,
\* those of the errors first and those of the warnings after them, every error
\* (syntax, semantic or runtime) with error severity and every warning with
\* warning severity.
C27_DiagnosticsSeverity ==
    (pc = "done" /\ options.strict = Some(FALSE)) =>
        LET d == getDiagnostics(result)
            ne == Len(result.errors)
        IN /\ Len(d) = ne + Len(result.warnings)
           /\ \A k \in 1..ne :
                 d[k].message = result.errors[k].message /\ d[k].severity = SeverityError
           /\ \A k \in 1..Len(result.warnings) :
                 /\ d[ne + k].message = result.warnings[k].message
                 /\ d[ne + k].severity = SeverityWarning

-----------------------------------------------------------------------------
(* QuarkdownParser.parse on a one-line source that starts with `.` and an  *)
(* identifier: the preprocessing pass, the inline pass with the rules in    *)
(* the order setupQuarkdownRules registers them (each `before('text')`      *)
(* inserts directly in front of text, so quarkdown_function is tried before *)
(* quarkdown_variable), and tokensToAST.  A source is a sequence of         *)
(* characters.  parseResult holds the source, context the inline state      *)
(* (src, pos, pending, tokens), result what parse returns.                  *)

\* Most characters after the identifier.
MaxTailLen == 4

IdentChars == {"v"}

TailChars == {"v", "{", "}", " ", ":", "!"}

\* characters at which the text rule stops
TerminatorChars == {"{", "}", ":", "!"}

ParserSources ==
    {<<".", "v">> \o tail : tail \in UNION {[1..n -> TailChars] : n \in 0..MaxTailLen}}

\* first position from p on whose character is not in S (Len + 1 if none)
RECURSIVE SkipWhile(_, _, _)
SkipWhile(src, p, S) ==
    IF p <= Len(src) /\ src[p] \in S THEN SkipWhile(src, p + 1, S) ELSE p

CharAt(src, p) == IF p \in DOMAIN src THEN src[p] ELSE ""

\* /\.([a-zA-Z_][a-zA-Z0-9_]*)\s*\{([^}]*)\}/g with its replacement
\* `{{FUNCTION:${funcName}:${args}}}`; the sources have their only `.` first
preprocessFunctionCalls(source) ==
    LET nameEnd == SkipWhile(source, 2, IdentChars)
        brace == SkipWhile(source, nameEnd, {" "})
        close == SkipWhile(source, brace + 1, TailChars \ {"}"})
    IN IF CharAt(source, 1) = "." /\ nameEnd > 2 /\ CharAt(source, brace) = "{"
          /\ CharAt(source, close) = "}"
       THEN <<"{", "{", "FUNCTION", ":">> \o SubSeq(source, 2, nameEnd - 1) \o <<":">>
            \o SubSeq(source, brace + 1, close - 1) \o <<"}", "}">>
            \o SubSeq(source, close + 1, Len(source))
       ELSE source

\* the blockquote replacement applies to lines that start with `>`
preprocessQuarkdownSyntax(source) == preprocessFunctionCalls(source)

NoMatch == [ok |-> FALSE, pos |-> 0, token |-> None]

parseFunctionCall(state) ==
    LET nameEnd == SkipWhile(state.src, state.pos + 1, IdentChars)
    IN IF CharAt(state.src, state.pos) # "." THEN NoMatch
       ELSE IF nameEnd = state.pos + 1 THEN NoMatch
       ELSE [ok |-> TRUE, pos |-> nameEnd,
             token |-> Some([type |-> "quarkdown_function_open",
                             info |-> SubSeq(state.src, state.pos + 1, nameEnd - 1)])]

parseVariable(state) ==
    LET nameEnd == SkipWhile(state.src, state.pos + 1, IdentChars)
    IN IF CharAt(state.src, state.pos) # "." THEN NoMatch
       ELSE IF nameEnd = state.pos + 1 THEN NoMatch
       ELSE IF CharAt(state.src, nameEnd) = "{" \/ CharAt(state.src, nameEnd) = " "
       THEN NoMatch
       ELSE [ok |-> TRUE, pos |-> nameEnd,
             token |-> Some([type |-> "quarkdown_variable",
                             content |-> SubSeq(state.src, state.pos + 1, nameEnd - 1)])]

\* the text rule: the characters up to the next terminator, added to pending
TextRule(state) ==
    LET stop == SkipWhile(state.src, state.pos, (TailChars \cup {".", "FUNCTION"}) \ TerminatorChars)
    IN IF stop = state.pos THEN NoMatch
       ELSE [ok |-> TRUE, pos |-> stop, token |-> None]

\* the inline rules in the order the ruler holds them
InlineRules(state) ==
    LET f == parseFunctionCall(state)
        v == parseVariable(state)
    IN IF f.ok THEN f ELSE IF v.ok THEN v ELSE TextRule(state)

\* state.push: pending text becomes a text token in front of the new token
PushPending(state) ==
    IF state.pending = <<>> THEN state.tokens
    ELSE Append(state.tokens, [type |-> "text", content |-> state.pending])

\* tokensToAST over md.parse's tokens paragraph_open, inline, paragraph_close:
\* the first and last give null, inline falls to the default case and becomes
\* a text node of its content; its children are not visited
tokensToAST(state) == Document(<<[type |-> "text", content |-> state.src]>>)

InitParser ==
    /\ pc = "idle"
    /\ parseResult \in ParserSources
    /\ context = [src |-> <<>>, pos |-> 1, pending |-> <<>>, tokens |-> <<>>]
    /\ result = [ast |-> Document(<<>>), errors |-> <<>>]
    /\ i = 0
    /\ executedChildren = <<>>
    /\ options = DefaultOptions
    /\ parseFault = "none"
    /\ errors = <<>>
    /\ warnings = <<>>
    /\ metadata = getDefaultMetadata
    /\ rendererOptions = EmptyMap
    /\ raised = "none"

\* parse: the first pass, and the inline state md.parse starts from
ParseBegin ==
    /\ pc = "idle"
    /\ context' = [src |-> preprocessQuarkdownSyntax(parseResult), pos |-> 1,
                   pending |-> <<>>, tokens |-> <<>>]
    /\ pc' = "inline"
    /\ UNCHANGED <<options, parseFault, parseResult, errors, warnings, metadata, i,
                   executedChildren, rendererOptions, raised, result>>

\* one round of the inline tokenizer: the first rule that matches advances
\* pos; when none does the character at pos goes to pending
InlineStep ==
    /\ pc = "inline"
    /\ context.pos <= Len(context.src)
    /\ LET r == InlineRules(context)
       IN context' =
            IF ~r.ok
            THEN [context EXCEPT !.pending = Append(@, context.src[context.pos]),
                                 !.pos = @ + 1]
            ELSE IF r.token = None
            THEN [context EXCEPT !.pending = @ \o SubSeq(context.src, context.pos, r.pos - 1),
                                 !.pos = r.pos]
            ELSE [context EXCEPT !.tokens = Append(PushPending(context), r.token[1]),
                                 !.pending = <<>>,
                                 !.pos = r.pos]
    /\ UNCHANGED <<pc, options, parseFault, parseResult, errors, warnings, metadata, i,
                   executedChildren, rendererOptions, raised, result>>

\* end of the inline pass, third pass, and parse returns
ParseEnd ==
    /\ pc = "inline"
    /\ context.pos > Len(context.src)
    /\ context' = [context EXCEPT !.tokens = PushPending(context), !.pending = <<>>]
    /\ result' = [ast |-> tokensToAST(context), errors |-> <<>>]
    /\ pc' = "done"
    /\ UNCHANGED <<options, parseFault, parseResult, errors, warnings, metadata, i,
                   executedChildren, rendererOptions, raised>>

NextParser ==
    \/ ParseBegin
    \/ InlineStep
    \/ ParseEnd

SpecParser == InitParser /\ [][NextParser]_vars

\* the identifier after the leading `.` and what follows it
IdentifierEnd == SkipWhile(parseResult, 2, IdentChars)

Identifier == SubSeq(parseResult, 2, IdentifierEnd - 1)

Follower == SubSeq(parseResult, IdentifierEnd, Len(parseResult))

\* `ident:{` after one space
NamedParameterPattern(f) ==
    LET nameEnd == SkipWhile(f, 2, IdentChars)
    IN /\ CharAt(f, 1) = " "
       /\ nameEnd > 2
       /\ CharAt(f, nameEnd) = ":"
       /\ CharAt(f, nameEnd + 1) = "{"

CallSyntaxFollows == CharAt(Follower, 1) = "{" \/ NamedParameterPattern(Follower)

TokensOfType(type) == {k \in DOMAIN context.tokens : context.tokens[k].type = type}

\* C28: a `.identifier` immediately followed by `{` or by a named-parameter
\* pattern is parsed as a function call of that identifier; every other
\* `.identifier` (followed by a space, punctuation or the end of the input) is
\* parsed as a variable reference to it.
C28_CallOrVariable ==
    pc = "done" =>
        IF CallSyntaxFollows
        THEN /\ \E k \in TokensOfType("quarkdown_function_open") :
                   context.tokens[k].info = Identifier
             /\ TokensOfType("quarkdown_variable") = {}
        ELSE /\ \E k \in TokensOfType("quarkdown_variable") :
                   context.tokens[k].content = Identifier
             /\ TokensOfType("quarkdown_function_open") = {}

-----------------------------------------------------------------------------
(* The registry of built-in functions during expansion (SpecExpand). *)

\* the names the `function` calls among the first n top-level nodes define
DefinedNames(n) ==
    {GetTextFromNode(parseResult.ast.children[k].args[1]) :
        k \in {j \in 1..n : /\ parseResult.ast.children[j].type = "function_call"
                            /\ parseResult.ast.children[j].name = "function"
                            /\ Len(parseResult.ast.children[j].args) >= 1}}

\* C29: the registry of built-in names and implementations is the one the
\* constructor built, in every state of an expansion: no step and no `function`
\* definition, also one that reuses a built-in's name, adds, removes or
\* replaces an entry; the functions defined so far are recorded in the
\* execution environment of the call.
C29_RegistryFixed ==
    /\ context.stdlib = Registry
    /\ pc = "execute" => DefinedNames(i - 1) \subseteq DOMAIN context.userFunctions

\* C29 witness: compile has returned for a document that defines a function
\* named upper, a built-in's name, and then calls upper; the definition is in
\* the environment and the call was answered by the built-in.
C29_Witness ==
    /\ pc = "done"
    /\ raised = "none"
    /\ "upper" \in DOMAIN context.userFunctions
    /\ context.userFunctions["upper"].body = <<Text("mine")>>
    /\ Len(executedChildren) >= 1
    /\ executedChildren[Len(executedChildren)] = Text("HELLO")

-----------------------------------------------------------------------------
(* compile called with a doctype and a theme in its options, from the call *)
(* of executeDocument on.                                                   *)

\* Longest document compiled with caller options.
MaxOptDocLen == 2

OptPool ==
    { Text("hello"),
      Variable("x"),
      FunctionCall("doctype", <<Text("slides")>>, NoNamed, <<>>),
      FunctionCall("theme", <<Text("dark")>>, NoNamed, <<>>),
      Container("paragraph", <<FunctionCall("doctype", <<Text("paged")>>, NoNamed, <<>>)>>) }

OptDocs == UNION {[1..n -> OptPool] : n \in 0..MaxOptDocLen}

\* CompileOptions with the doctype and theme of the caller, each absent or set
CallerOptions ==
    [strict : {None},
     doctype : {None, Some("plain"), Some("slides"), Some("paged")},
     theme : {None, Some("dark"), Some("light")}]

InitOptions ==
    /\ pc = "execute"
    /\ options \in CallerOptions
    /\ parseFault = "none"
    /\ parseResult \in {parse(source, "none") : source \in OptDocs}
    /\ errors = <<>>
    /\ warnings = <<>>
    /\ context = NewContext(options)
    /\ metadata = extractMetadata(parseResult.ast)
    /\ i = 1
    /\ executedChildren = <<>>
    /\ rendererOptions = EmptyMap
    /\ raised = "none"
    /\ result = Pending

NextOptions ==
    \/ ExecuteDocumentStep
    \/ Render

SpecOptions == InitOptions /\ [][NextOptions]_vars

\* the texts of the top-level calls of `name` with a text as first argument
TopLevelArgs(name) ==
    {parseResult.ast.children[k].args[1].content :
        k \in {j \in DOMAIN parseResult.ast.children :
                 /\ parseResult.ast.children[j].type = "function_call"
                 /\ parseResult.ast.children[j].name = name
                 /\ Len(parseResult.ast.children[j].args) >= 1
                 /\ parseResult.ast.children[j].args[1].type = "text"}}

====
